---------------------------- MODULE Spec2Model ----------------------------
(***************************************************************************)
(* A model of the usage-model engine of fsstratify: the KAD hysteresis     *)
(* state machine, the operation/playbook codec, the operations' effect on  *)
(* the file system, and the replay/generative usage models.                *)
(*                                                                         *)
(* The module holds several specifications, one per component.  They share *)
(* the variables below; a component's specification leaves the variables   *)
(* of the other components at their idle values.                           *)
(***************************************************************************)
EXTENDS Integers, Sequences, FiniteSets, TLC

VARIABLES
    \* ---- the simulated file system (the query layer's view) ----
    fs,            \* path -> [type, size]: the active entries
    used,          \* bytes in use, as shutil.disk_usage reports them
    \* ---- KADModel ----
    kpc,           \* position of the driver: new, rejected, constructed, ready, emitted, failed, stopped
    kcfg,          \* the configuration handed to the constructor
    current_step,  \* KADModel._current_step
    mode,          \* KADModel._mode
    kop,           \* what the last __next__ call returned or raised
    kcmd,          \* the generator the last __next__ call dispatched to
    \* ---- observers of the KAD run (history of the usages seen) ----
    prevMode,      \* _mode before the last step
    obs,           \* usage seen by the last step
    wPhase,        \* a step saw u < write_limit.start and every step since saw u < write_limit.stop
    dPhase,        \* a step saw u > delete_limit.start and every step since saw u > delete_limit.stop
    wPhaseBefore,  \* wPhase as it was before the last step
    \* ---- one operation through the codec ----
    cpc,           \* start, refused, constructed, written, write_failed, read
    cop,           \* the operation constructed, or the exception of its constructor
    cline,         \* its as_playbook_line(), or the exception raised
    cback,         \* from_playbook_line of that line, or the exception raised
    \* ---- one Shrink on one file ----
    spc,           \* start, refused, constructed, done, failed
    sop,           \* the Shrink constructed, or the exception of its constructor
    s_shrink_size, \* the shrink_size asked for
    s_file_size,   \* the file's size before the operation
    \* ---- one Write or Extend in its write loop ----
    wpc,           \* start, constructed, open, done, failed
    wop,           \* the operation executed
    w_chunk_size,  \* the chunk_size execute() hands to _write_to_file
    byte_num_to_add, \* bytes the loop still has to write
    write_calls,   \* sizes of the f.write calls made so far, as <<count, total, largest>>
    \* ---- PlaybookModel ----
    ppc,           \* new, rejected, constructed, ended
    playbook,      \* the lines of the playbook file
    operations,    \* PlaybookModel._operations
    returned,      \* the operations the iterator has returned so far
    \* ---- CaseyModel ----
    cypc,          \* new, raised
    cycfg,         \* the parameters the model is created with
    \* ---- ProbabilisticModel ----
    rpc,           \* new, rejected, constructed, ready, emitted, failed, aborted, stopped
    rcfg,          \* the configuration handed to the constructor
    r_current_step, \* ProbabilisticModel._current_step
    rop,           \* what the last __next__ call returned or raised
    rcmd,          \* the op_name the last __next__ call drew
    \* ---- a model instance used again after its traversal has ended ----
    piter,         \* position of the list iterator a new iter(PlaybookModel) returned
    late,          \* the operations yielded after the traversal had ended
    late_calls,    \* the next() calls made after the traversal had ended
    \* ---- one call into the query layer ----
    qpc,           \* start, get_nonexistent_path, get_random_file
    qarg,          \* the arguments of the call
    qres,          \* what the call returned or raised
    qtries,        \* the paths get_nonexistent_path has drawn so far in its loop
    qname_length,  \* the length of the name get_random_string returned last
    \* ---- one playbook line handed to from_playbook_line ----
    lpc,           \* line, parsed
    lwords,        \* the words of the line
    lback,         \* the operation built, or the exception raised
    \* ---- one Copy or Move ----
    xpc,           \* start, constructed, done, or the exception execute() raised
    xop,           \* the operation
    xfs,           \* the tree before the operation
    \* ---- one path on its way from an operation to the mount point ----
    mpc,           \* start, built
    mpath,         \* the path handed to the operation
    mnormalized,   \* Operation._path
    mreal,         \* get_path_in_mount_point(Operation._path)
    \* ---- one call of merge_overlapping_fragments ----
    gpc,           \* start, merged
    gfragments,    \* the list handed in
    gmerged        \* the list returned

kadVars == <<kpc, kcfg, current_step, mode, kop, kcmd, prevMode, obs, wPhase, dPhase, wPhaseBefore>>
fsVars == <<fs, used>>
codecVars == <<cpc, cop, cline, cback>>
shrinkVars == <<spc, sop, s_shrink_size, s_file_size>>
writeVars == <<wpc, wop, w_chunk_size, byte_num_to_add, write_calls>>
playbookVars == <<ppc, playbook, operations, returned>>
caseyVars == <<cypc, cycfg>>
probVars == <<rpc, rcfg, r_current_step, rop, rcmd>>
iterVars == <<piter, late, late_calls>>
queryVars == <<qpc, qarg, qres, qtries, qname_length>>
parseVars == <<lpc, lwords, lback>>
execVars == <<xpc, xop, xfs>>
mountVars == <<mpc, mpath, mnormalized, mreal>>
fragVars == <<gpc, gfragments, gmerged>>
vars == <<fsVars, kadVars, codecVars, shrinkVars, writeVars, playbookVars, caseyVars,
          probVars, iterVars, queryVars, parseVars, execVars, mountVars, fragVars>>

-----------------------------------------------------------------------------
(* Bounds *)

\* thresholds are multiples of 1/LimitGrid
LimitGrid == 4
\* the volume's size in bytes
Total == 1024
\* usages are multiples of Total / UsageGrid
UsageGrid == 4
\* number of steps of a generative model
MaxSteps == 2
\* depth of the directory tree
MaxDepth == 2

-----------------------------------------------------------------------------
(* Paths and the file system *)

Names == {"a", "b"}

RECURSIVE PathsOfDepth(_)
PathsOfDepth(d) ==
    IF d = 0 THEN {<<>>}
    ELSE {Append(p, n) : p \in PathsOfDepth(d - 1), n \in Names}

\* every path below the root, the root being <<>>
AllPaths == UNION {PathsOfDepth(d) : d \in 1..MaxDepth}

Root == <<>>

Parent(p) == SubSeq(p, 1, Len(p) - 1)

Absent == [type |-> "absent", size |-> 0]
RegularFile(n) == [type |-> "regular", size |-> n]
Directory == [type |-> "directory", size |-> 0]

EmptyFs == [p \in AllPaths |-> Absent]

Exists(f, p) == p = Root \/ (p \in AllPaths /\ f[p].type # "absent")
IsDir(f, p) == p = Root \/ (p \in AllPaths /\ f[p].type = "directory")
IsFile(f, p) == p \in AllPaths /\ f[p].type = "regular"

\* Path.is_relative_to: p is other or lies below it
is_subdirectory_of(p, other) ==
    Len(p) >= Len(other) /\ SubSeq(p, 1, Len(other)) = other

get_files_by_type(f, t) == {p \in AllPaths : f[p].type = t}

get_files(f) == {p \in AllPaths : f[p].type # "absent"}

empty(f) == get_files(f) = {}

get_size_of(f, p) == f[p].size

get_free_space(u) == Total - u

UsageValues == {k * (Total \div UsageGrid) : k \in 0..UsageGrid}


-----------------------------------------------------------------------------
(* The query layer: random selection and fresh paths *)

NoFilter == [on |-> FALSE, file_type |-> "any", min_size |-> 0, bounded |-> FALSE,
             max_size |-> 0, excluded |-> {}]

\* FileFilter.__call__: the paths among files that pass the filter
FileFilter(f, flt, files) ==
    {p \in files :
        /\ (flt.file_type # "any" => f[p].type = flt.file_type)
        /\ p \notin flt.excluded
        /\ f[p].type = "regular"
        /\ flt.min_size <= get_size_of(f, p)
        /\ (flt.bounded => get_size_of(f, p) <= flt.max_size)}

get_filtered_files(files, files_to_filter_out) == files \ files_to_filter_out

Found(p) == [res |-> "file", path |-> p, err |-> "none"]
NoneFound == [res |-> "none", path |-> Root, err |-> "none"]
Raised(e) == [res |-> "error", path |-> Root, err |-> e]

\* get_random_file: the set of its possible outcomes (random.choice is any member)
get_random_file(f, file_type, files_to_filter_out, flt) ==
    IF flt.on
    THEN LET files == FileFilter(f, flt, get_files_by_type(f, "regular")
                                         \cup get_files_by_type(f, "directory"))
         IN IF files = {} THEN {NoneFound} ELSE {Found(p) : p \in files}
    ELSE LET all == IF file_type = "any"
                    THEN get_files_by_type(f, "regular") \cup get_files_by_type(f, "directory")
                    ELSE get_files_by_type(f, file_type)
             files == get_filtered_files(all, files_to_filter_out)
         IN IF all = {} THEN {Raised("SimulationError")}
            ELSE IF files = {} THEN {NoneFound}
            ELSE {Found(p) : p \in files}

\* variant: no directory is left out
skip_relative_paths_keeping_all(dirs, skip) == dirs

\* _skip_relative_paths
skip_relative_paths(dirs, skip) == {d \in dirs : ~is_subdirectory_of(d, skip)}

\* _get_random_directory: the directories a fresh path may be placed under;
\* skip is <<d>> for skip_dir = d and <<>> for no skip_dir
get_random_directory(f, skip) ==
    LET all == get_files_by_type(f, "directory")
        dirs == IF skip # <<>> THEN skip_relative_paths(all, skip[1]) ELSE all
    IN IF dirs = {} THEN {Root} ELSE dirs

MAX_FILE_NAME_LENGTH == 255

\* get_nonexistent_path: each try draws a directory and a name; a try that hits
\* an existing path is repeated, and the last allowed try that hits one raises
get_nonexistent_path(f, length, skip) ==
    IF length > MAX_FILE_NAME_LENGTH THEN {Raised("SimulationError")}
    ELSE LET tries == {Append(d, n) : d \in get_random_directory(f, skip), n \in Names}
         IN {Found(p) : p \in {q \in tries : ~Exists(f, q)}}
            \cup (IF \E q \in tries : Exists(f, q) THEN {Raised("SimulationError")} ELSE {})

DefaultNameLength == 8

-----------------------------------------------------------------------------
(* KADModel: configuration *)

PREVENT_EMPTY_DISK == "PREVENT_EMPTY_DISK"
REGULAR == "REGULAR"
PREVENT_FILLED_DISK == "PREVENT_FILLED_DISK"

\* thresholds k stand for the ratio k / LimitGrid
assert_valid_write_limits(c) ==
    /\ ~(c.wl_start < 0 \/ c.wl_start > LimitGrid)
    /\ ~(c.wl_stop < 0 \/ c.wl_stop > LimitGrid)
    /\ ~(c.wl_start > c.wl_stop)

assert_valid_delete_limits(c) ==
    /\ ~(c.dl_start < 0 \/ c.dl_start > LimitGrid)
    /\ ~(c.dl_stop < 0 \/ c.dl_stop > LimitGrid)
    /\ ~(c.dl_start < c.dl_stop)

\* variant: equal stop thresholds pass
assert_valid_write_delete_limits_equal_stops(c) ==
    /\ assert_valid_write_limits(c)
    /\ assert_valid_delete_limits(c)
    /\ ~(c.dl_stop < c.wl_stop)
    /\ ~(c.wl_start >= c.dl_start)

assert_valid_write_delete_limits(c) ==
    /\ assert_valid_write_limits(c)
    /\ assert_valid_delete_limits(c)
    /\ ~(c.dl_stop <= c.wl_stop)
    /\ ~(c.wl_start >= c.dl_start)

\* KADModel._validate_config: TRUE when no ConfigurationError is raised
validate_config(c) ==
    /\ ~(c.steps < 1)
    /\ ~(c.chunk_size < 1)
    /\ \A w \in {"write", "delete", "increase", "decrease"} : ~(c.operation_factors[w] < 0)
    /\ ~(\A w \in {"write", "delete", "increase", "decrease"} : c.operation_factors[w] = 0)
    /\ ~(Len(c.size_factors) = 0)
    /\ \A i \in 1..Len(c.size_factors) :
          ~(c.size_factors[i].size <= 0) /\ ~(c.size_factors[i].weight < 0)
    /\ ~(c.rr_min < 0)
    /\ ~(c.rr_max < 1)
    /\ assert_valid_write_delete_limits(c)

\* _compute_op_biases, times the (positive) sum of the factors
compute_op_biases(c) ==
    [n \in {"write", "rm", "extend", "shrink"} |->
        CASE n = "write" -> c.operation_factors["write"]
          [] n = "rm" -> c.operation_factors["delete"]
          [] n = "extend" -> c.operation_factors["increase"]
          [] n = "shrink" -> c.operation_factors["decrease"]]

\* _used_space compared with a threshold k / LimitGrid, without the division
UsageBelow(u, k) == u * LimitGrid < k * Total
UsageAbove(u, k) == u * LimitGrid > k * Total

\* KADModel._update_model_state: the mode after a step that sees usage u
\* variant: the write phase already ends at write_limit.start
update_model_state_stop_at_write_start(c, m, u) ==
    LET m1 == IF UsageBelow(u, c.wl_start) THEN PREVENT_EMPTY_DISK
              ELSE IF UsageAbove(u, c.dl_start) THEN PREVENT_FILLED_DISK
              ELSE m
    IN IF ~UsageBelow(u, c.wl_start) /\ ~UsageAbove(u, c.dl_stop) THEN REGULAR ELSE m1

\* variant: the delete phase already ends at delete_limit.start
update_model_state_stop_at_delete_start(c, m, u) ==
    LET m1 == IF UsageBelow(u, c.wl_start) THEN PREVENT_EMPTY_DISK
              ELSE IF UsageAbove(u, c.dl_start) THEN PREVENT_FILLED_DISK
              ELSE m
    IN IF ~UsageBelow(u, c.wl_stop) /\ ~UsageAbove(u, c.dl_start) THEN REGULAR ELSE m1

\* variant: a usage between the bands resets the mode instead of keeping it
update_model_state_forgetful(c, m, u) ==
    IF UsageBelow(u, c.wl_start) THEN PREVENT_EMPTY_DISK
    ELSE IF UsageAbove(u, c.dl_start) THEN PREVENT_FILLED_DISK
    ELSE REGULAR

update_model_state(c, m, u) ==
    LET m1 == IF UsageBelow(u, c.wl_start) THEN PREVENT_EMPTY_DISK
              ELSE IF UsageAbove(u, c.dl_start) THEN PREVENT_FILLED_DISK
              ELSE m
    IN IF ~UsageBelow(u, c.wl_stop) /\ ~UsageAbove(u, c.dl_stop) THEN REGULAR ELSE m1

-----------------------------------------------------------------------------
(* The playbook codec: words, literals and paths *)

\* A simulation path: absolute or relative, its components, and, for a last
\* component that holds blanks, the blank-separated pieces that follow its first
SimPath(abs, parts, tail) == [abs |-> abs, parts |-> parts, tail |-> tail]

NoPath == SimPath(TRUE, <<>>, <<>>)

\* Operation._normalize_simulation_path
normalize_simulation_path(p) ==
    IF p.abs THEN p ELSE SimPath(TRUE, p.parts, p.tail)

\* the path of the query layer (a sequence of names below the root) as a Path
AsSimPath(q) == SimPath(TRUE, q, <<>>)

\* The text after "key=": a number with a unit suffix, or any other text
Num(n, unit) == [form |-> "num", n |-> n, unit |-> unit, s |-> ""]
Text(s) == [form |-> "text", n |-> 0, unit |-> "", s |-> s]

\* One blank-separated word of a line: a command name, a path, "key=value",
\* or a bare literal (the argument of sleep)
Cmd(c) == [k |-> "cmd", key |-> c, val |-> Text(""), path |-> NoPath]
PathWord(p) == [k |-> "path", key |-> "", val |-> Text(""), path |-> p]
KV(key, v) == [k |-> "kv", key |-> key, val |-> v, path |-> NoPath]
Lit(v) == [k |-> "lit", key |-> "", val |-> v, path |-> NoPath]

\* str(path).split(): a path whose last component holds blanks is several words
PathWords(p) ==
    <<PathWord(SimPath(p.abs, p.parts, <<>>))>>
    \o [i \in 1..Len(p.tail) |-> PathWord(SimPath(FALSE, <<p.tail[i]>>, <<>>))]

\* Path(word) for a word of a line
PathOf(w) == IF w.k = "path" THEN w.path ELSE SimPath(FALSE, <<w.key>>, <<>>)

Parsed(v) == [ok |-> TRUE, v |-> v, err |-> "none"]
Failed(e) == [ok |-> FALSE, v |-> 0, err |-> e]

UnitFactor(u) ==
    CASE u \in {"k", "kB"} -> 1000
      [] u \in {"M", "MB"} -> 1000 * 1000
      [] u \in {"Ki", "KiB"} -> 1024
      [] u \in {"Mi", "MiB"} -> 1024 * 1024

SizeUnits == {"k", "kB", "M", "MB", "Ki", "KiB", "Mi", "MiB"}

\* utils.parse_size_definition: digits followed by an optional known unit
parse_size_definition(v) ==
    IF v.form # "num" \/ v.n < 0 THEN Failed("ValueError")
    ELSE IF v.unit = "" THEN Parsed(v.n)
    ELSE IF v.unit \notin SizeUnits THEN Failed("ValueError")
    ELSE Parsed(v.n * UnitFactor(v.unit))

DurationFactor(u) ==
    CASE u = "s" -> 1
      [] u = "min" -> 60
      [] u = "h" -> 3600

\* utils.parse_duration_string
parse_duration_string(v) ==
    IF v.form # "num" \/ v.n < 0 THEN Failed("ValueError")
    ELSE IF v.unit = "" THEN Parsed(v.n)
    ELSE IF v.unit \notin {"s", "min", "h"} THEN Failed("ValueError")
    ELSE Parsed(v.n * DurationFactor(v.unit))

\* str.lower on the texts the model writes
Lower(s) ==
    CASE s = "True" -> "true"
      [] s = "False" -> "false"
      [] OTHER -> s

\* utils.parse_boolean_string
parse_boolean_string(v) ==
    IF v.form # "text" THEN Failed("ValueError")
    ELSE IF Lower(v.s) \in {"true", "yes", "y"} THEN [ok |-> TRUE, v |-> TRUE, err |-> "none"]
    ELSE IF Lower(v.s) \in {"false", "no", "n"} THEN [ok |-> TRUE, v |-> FALSE, err |-> "none"]
    ELSE Failed("ValueError")

\* str(b) for a bool
BoolText(b) == IF b THEN Text("True") ELSE Text("False")

-----------------------------------------------------------------------------
(* Operations: construction, as_dict, as_playbook_line, from_playbook_line *)

\* _MAX_CHUNK_SIZE = 2**28 - 1
MAX_CHUNK_SIZE == 268435455

\* the default chunk_size of Write and Extend
DEFAULT_CHUNK_SIZE == 512

\* One record shape for every operation kind; the fields a kind does not have
\* keep their blank values.  size is the size, extend_size, shrink_size or
\* duration; gen is the data generator held by a Write or Extend.
Op(command, path, dst, size, chunked, chunk_size, gen, time) ==
    [command |-> command, path |-> path, dst |-> dst, size |-> size,
     chunked |-> chunked, chunk_size |-> chunk_size, gen |-> gen, time |-> time]

Built(op) == [ok |-> TRUE, op |-> op, err |-> "none"]
NoOp == Op("none", NoPath, NoPath, 0, FALSE, 0, "none", "")
Error(e) == [ok |-> FALSE, op |-> NoOp, err |-> e]

\* Copy.__init__ and Move.__init__ (command is cp or mv)
Copy(command, src, dst) ==
    Built(Op(command, normalize_simulation_path(src), normalize_simulation_path(dst),
             0, FALSE, 0, "none", ""))

\* Mkdir.__init__ and Remove.__init__ (command is mkdir or rm)
Mkdir(command, path) ==
    Built(Op(command, normalize_simulation_path(path), NoPath, 0, FALSE, 0, "none", ""))

\* Shrink.__init__
Shrink(path, shrink_size) ==
    IF shrink_size < 1 THEN Error("ValueError")
    ELSE Built(Op("shrink", normalize_simulation_path(path), NoPath, shrink_size,
                  FALSE, 0, "none", ""))

\* Write.__init__ and Extend.__init__ over FileWriteOperation.__init__; gen is
\* what calling data_generator() gives: "pattern6" is the six-argument partial
\* that Write.from_playbook_line builds, which PatternGenerator does not accept.
\* "static" is StaticStringGenerator, whose class is not among the sources; it
\* is taken to construct, and no specification of this module builds one.
Write(command, path, size, chunked, chunk_size, gen) ==
    IF size <= 0 THEN Error("SimulationError")
    ELSE IF gen = "pattern6" THEN Error("TypeError")
    ELSE IF chunk_size <= 0 THEN Error("SimulationError")
    ELSE Built(Op(command, normalize_simulation_path(path), NoPath, size, chunked,
                  chunk_size, gen, ""))

\* Sleep.__init__
Sleep(duration) == Built(Op("sleep", NoPath, NoPath, duration, FALSE, 0, "none", ""))

\* Time.__init__: _time_str is the datetime's isoformat
Time(datetimeobj) == Built(Op("time", NoPath, NoPath, 0, FALSE, 0, "none", datetimeobj))

\* as_dict: the generator is no part of it
as_dict(op) ==
    CASE op.command \in {"cp", "mv"} ->
            [command |-> op.command, path |-> op.path, dst |-> op.dst, size |-> 0,
             chunked |-> FALSE, chunk_size |-> 0, time |-> ""]
      [] op.command \in {"mkdir", "rm"} ->
            [command |-> op.command, path |-> op.path, dst |-> NoPath, size |-> 0,
             chunked |-> FALSE, chunk_size |-> 0, time |-> ""]
      [] op.command \in {"shrink", "sleep"} ->
            [command |-> op.command, path |-> op.path, dst |-> NoPath, size |-> op.size,
             chunked |-> FALSE, chunk_size |-> 0, time |-> ""]
      [] op.command \in {"write", "extend"} ->
            [command |-> op.command, path |-> op.path, dst |-> NoPath, size |-> op.size,
             chunked |-> op.chunked, chunk_size |-> op.chunk_size, time |-> ""]
      [] op.command = "time" ->
            [command |-> op.command, path |-> NoPath, dst |-> NoPath, size |-> 0,
             chunked |-> FALSE, chunk_size |-> 0, time |-> op.time]

Line(words) == [ok |-> TRUE, words |-> words, err |-> "none"]
NoLine(e) == [ok |-> FALSE, words |-> <<>>, err |-> e]

SizeKey(command) == IF command = "write" THEN "size" ELSE
                    IF command = "extend" THEN "extend_size" ELSE "shrink_size"

\* as_playbook_line of every kind, split into words.  A Write or Extend that
\* holds a PatternGenerator reads its pattern_string, which the class lacks.
as_playbook_line(op) ==
    CASE op.command \in {"cp", "mv"} ->
            Line(<<Cmd(op.command)>> \o PathWords(op.path) \o PathWords(op.dst))
      [] op.command \in {"mkdir", "rm"} ->
            Line(<<Cmd(op.command)>> \o PathWords(op.path))
      [] op.command = "shrink" ->
            Line(<<Cmd(op.command)>> \o PathWords(op.path)
                 \o <<KV("shrink_size", Num(op.size, ""))>>)
      [] op.command \in {"write", "extend"} ->
            IF op.gen = "pattern" THEN NoLine("AttributeError")
            ELSE Line(<<Cmd(op.command)>> \o PathWords(op.path)
                      \o <<KV(SizeKey(op.command), Num(op.size, "")),
                           KV("chunked", BoolText(op.chunked)),
                           KV("chunk_size", Num(op.chunk_size, ""))>>)
      [] op.command = "sleep" -> Line(<<Cmd(op.command), Lit(Num(op.size, ""))>>)
      [] op.command = "time" -> Line(<<Cmd(op.command), Lit(Text(op.time))>>)

\* line.split()[1:]
Parameters(words) == SubSeq(words, 2, Len(words))

\* Copy.from_playbook_line and Move.from_playbook_line
copy_from_playbook_line(command, words) ==
    LET args == Parameters(words)
    IN IF Len(args) # 2 THEN Error("PlaybookError")
       ELSE Copy(command, PathOf(args[1]), PathOf(args[2]))

\* Mkdir.from_playbook_line and Remove.from_playbook_line
mkdir_from_playbook_line(command, words) ==
    LET args == Parameters(words)
    IN IF Len(args) # 1 THEN Error("PlaybookError")
       ELSE Mkdir(command, PathOf(args[1]))

\* the loop over parameters[1:] of Shrink.from_playbook_line: the shrink_size
\* it ends with, 0 while none was read, or -1 for a PlaybookError
RECURSIVE ShrinkParams(_, _, _)
ShrinkParams(params, i, acc) ==
    IF i > Len(params) THEN acc
    ELSE LET w == params[i]
         IN IF w.k = "kv" /\ w.key = "shrink_size"
            THEN LET r == parse_size_definition(w.val)
                 IN IF ~r.ok THEN -1
                    ELSE IF r.v <= 0 THEN -1
                    ELSE ShrinkParams(params, i + 1, r.v)
            ELSE -1

\* Shrink.from_playbook_line
shrink_from_playbook_line(words) ==
    LET parameters == Parameters(words)
    IN IF Len(parameters) < 2 THEN Error("PlaybookError")
       ELSE LET n == ShrinkParams(parameters, 2, 0)
            IN IF n = -1 THEN Error("PlaybookError")
               ELSE Shrink(PathOf(parameters[1]), n)

NoArgs == [size |-> 0, has_size |-> FALSE, chunked |-> FALSE,
           chunk_size |-> DEFAULT_CHUNK_SIZE, gen |-> "random", err |-> "none"]

\* the loop over parameters[1:] of Write.from_playbook_line (command write) and
\* of Extend.from_playbook_line (command extend): the keyword arguments read,
\* err naming the exception that ended the loop
RECURSIVE WriteParams(_, _, _, _)
WriteParams(command, params, i, args) ==
    IF i > Len(params) THEN args
    ELSE LET w == params[i]
             is(key) == w.k = "kv" /\ w.key = key
         IN IF is("chunked")
            THEN LET r == parse_boolean_string(w.val)
                 IN IF ~r.ok THEN [args EXCEPT !.err = "PlaybookError"]
                    ELSE WriteParams(command, params, i + 1, [args EXCEPT !.chunked = r.v])
            ELSE IF is("chunk_size")
            THEN LET r == parse_size_definition(w.val)
                 IN IF ~r.ok \/ r.v <= 0 THEN [args EXCEPT !.err = "PlaybookError"]
                    ELSE WriteParams(command, params, i + 1, [args EXCEPT !.chunk_size = r.v])
            ELSE IF is(SizeKey(command))
            THEN LET r == parse_size_definition(w.val)
                 IN IF ~r.ok \/ r.v <= 0 THEN [args EXCEPT !.err = "PlaybookError"]
                    ELSE WriteParams(command, params, i + 1,
                                     [args EXCEPT !.size = r.v, !.has_size = TRUE])
            ELSE IF command = "write" /\ is("data_generator")
            THEN IF w.val.form = "text" /\ w.val.s = ""
                 THEN [args EXCEPT !.err = "PlaybookError"]
                 ELSE IF w.val.form = "text" /\ w.val.s = "pattern(8,%c,x)"
                 THEN WriteParams(command, params, i + 1, [args EXCEPT !.gen = "pattern6"])
                 ELSE IF w.val.form = "text" /\ w.val.s = "pattern"
                 THEN [args EXCEPT !.err = "TypeError"]
                 ELSE WriteParams(command, params, i + 1, args)
            ELSE IF command = "extend" /\ is("pattern")
            THEN IF w.val.form = "text" /\ w.val.s = ""
                 THEN [args EXCEPT !.err = "PlaybookError"]
                 ELSE WriteParams(command, params, i + 1, [args EXCEPT !.gen = "static"])
            ELSE [args EXCEPT !.err = "PlaybookError"]

\* Write.from_playbook_line and Extend.from_playbook_line; cls(**args) without
\* the size is a TypeError
write_from_playbook_line(command, words) ==
    LET parameters == Parameters(words)
    IN IF Len(parameters) < 2 THEN Error("PlaybookError")
       ELSE LET args == WriteParams(command, parameters, 2, NoArgs)
            IN IF args.err # "none" THEN Error(args.err)
               ELSE IF ~args.has_size THEN Error("TypeError")
               ELSE Write(command, PathOf(parameters[1]), args.size, args.chunked,
                          args.chunk_size, args.gen)

\* "".join(line_parts[1:]) for the lines of the model: one literal, or a number
\* followed by its unit as a word of its own
JoinWords(ws) ==
    IF Len(ws) = 1 /\ ws[1].k = "lit" THEN ws[1].val
    ELSE IF Len(ws) = 2 /\ ws[1].k = "lit" /\ ws[1].val.form = "num" /\ ws[1].val.unit = ""
            /\ ws[2].k = "lit" /\ ws[2].val.form = "text"
    THEN Num(ws[1].val.n, ws[2].val.s)
    ELSE Text("?")

\* Sleep.from_playbook_line
sleep_from_playbook_line(words) ==
    IF Len(words) < 2 THEN Error("PlaybookError")
    ELSE LET r == parse_duration_string(JoinWords(Parameters(words)))
         IN IF ~r.ok THEN Error("PlaybookError") ELSE Sleep(r.v)

\* the ISO 8601 texts of the model, and the isoformat() of what fromisoformat reads from them
IsoTexts == {"2024-01-01T00:00:00", "2024-01-01"}
IsoFormat(s) == IF s = "2024-01-01" THEN "2024-01-01T00:00:00" ELSE s

\* Time.from_playbook_line: the except clause names PlaybookError, which
\* fromisoformat never raises, so its ValueError leaves the method as it is
time_from_playbook_line(words) ==
    IF Len(words) < 2 THEN Error("IndexError")
    ELSE LET w == words[2]
         IN IF w.k = "lit" /\ w.val.form = "text" /\ w.val.s \in IsoTexts
            THEN Time(IsoFormat(w.val.s))
            ELSE Error("ValueError")

\* the registry of get_operations_map()
OperationNames == {"cp", "mv", "rm", "mkdir", "write", "extend", "shrink", "sleep", "time"}

\* self._operations[command].from_playbook_line(line)
from_playbook_line(command, words) ==
    CASE command \in {"cp", "mv"} -> copy_from_playbook_line(command, words)
      [] command \in {"mkdir", "rm"} -> mkdir_from_playbook_line(command, words)
      [] command = "shrink" -> shrink_from_playbook_line(words)
      [] command \in {"write", "extend"} -> write_from_playbook_line(command, words)
      [] command = "sleep" -> sleep_from_playbook_line(words)
      [] command = "time" -> time_from_playbook_line(words)
      [] OTHER -> Error("KeyError")

-----------------------------------------------------------------------------
(* Operations: execute() on the files the generative models touch *)

\* get_path_in_mount_point of a normalized path, as a path of the tree
RealPath(p) == p.parts

Done(f) == [ok |-> TRUE, fs |-> f, err |-> "none"]
Abort(f, e) == [ok |-> FALSE, fs |-> f, err |-> e]

\* variant: a shrink down to an empty file is refused as well
shrink_execute_keeps_a_byte(f, op) ==
    LET real_path == RealPath(op.path)
    IN IF ~Exists(f, real_path) THEN Abort(f, "SimulationError")
       ELSE IF IsDir(f, real_path) THEN Abort(f, "SimulationError")
       ELSE LET file_size == f[real_path].size
                new_file_size == file_size - op.size
            IN IF new_file_size <= 0 THEN Abort(f, "SimulationError")
               ELSE Done([f EXCEPT ![real_path] = RegularFile(new_file_size)])

\* Shrink.execute: the tree afterwards, or the error raised
shrink_execute(f, op) ==
    LET real_path == RealPath(op.path)
    IN IF ~Exists(f, real_path) THEN Abort(f, "SimulationError")
       ELSE IF IsDir(f, real_path) THEN Abort(f, "SimulationError")
       ELSE LET file_size == f[real_path].size
                new_file_size == file_size - op.size
            IN IF new_file_size < 0 THEN Abort(f, "SimulationError")
               ELSE Done([f EXCEPT ![real_path] = RegularFile(new_file_size)])

\* Write.execute, the write loop taken as a whole: open("wb") truncates or
\* creates the file, and the loop writes _write_size bytes
write_execute(f, op) ==
    LET real_path == RealPath(op.path)
    IN IF IsDir(f, real_path) THEN Abort(f, "SimulationError")
       ELSE IF ~IsDir(f, Parent(real_path)) THEN Abort(f, "OSError")
       ELSE Done([f EXCEPT ![real_path] = RegularFile(op.size)])

\* Extend.execute, the write loop taken as a whole: open("ab") appends
extend_execute(f, op) ==
    LET real_path == RealPath(op.path)
    IN IF ~Exists(f, real_path) THEN Abort(f, "SimulationError")
       ELSE IF IsDir(f, real_path) THEN Abort(f, "SimulationError")
       ELSE Done([f EXCEPT ![real_path] = RegularFile(f[real_path].size + op.size)])

\* Remove.execute: unlink, rmdir or rmtree
remove_execute(f, op) ==
    LET real_path == RealPath(op.path)
    IN IF ~Exists(f, real_path) THEN Abort(f, "SimulationError")
       ELSE IF real_path = Root THEN Abort(f, "OSError")
       ELSE Done([q \in AllPaths |-> IF is_subdirectory_of(q, real_path) THEN Absent ELSE f[q]])

-----------------------------------------------------------------------------
(* KADModel: generating one operation *)

\* random.choices(names, weights)[0]: the names of positive weight; none is a ValueError
Choices(names, weight) == {n \in names : weight[n] > 0}

\* random.randint(a, b): a > b is a ValueError
RandInt(a, b) == a..b

\* KADModel._generate_operation_size: the set of its results
generate_operation_size(c, min_size, max_size) ==
    LET factors == {c.size_factors[i].size :
                        i \in {j \in 1..Len(c.size_factors) : c.size_factors[j].weight > 0}}
    IN IF factors = {} \/ c.rr_min > c.rr_max THEN {Failed("ValueError")}
       ELSE {LET size == c.chunk_size * factor * random_number
             IN IF size > max_size THEN Parsed((max_size \div c.chunk_size) * c.chunk_size)
                ELSE IF size < min_size
                THEN Parsed(((min_size \div c.chunk_size) + 1) * c.chunk_size)
                ELSE Parsed(size)
             : factor \in factors, random_number \in RandInt(c.rr_min, c.rr_max)}

\* the line of _generate_write and _generate_extend
WriteLine(command, q, size, c) ==
    <<Cmd(command)>> \o PathWords(AsSimPath(q))
    \o <<KV(SizeKey(command), Num(size, "")), KV("chunked", BoolText(TRUE)),
         KV("chunk_size", Num(c.chunk_size, ""))>>

\* KADModel._generate_write
generate_write(c, f, u) ==
    UNION {IF path.res = "error" THEN {Error(path.err)}
           ELSE {IF file_size.ok
                 THEN from_playbook_line("write", WriteLine("write", path.path, file_size.v, c))
                 ELSE Error(file_size.err)
                 : file_size \in generate_operation_size(c, 1, get_free_space(u))}
           : path \in get_nonexistent_path(f, DefaultNameLength, <<>>)}

\* KADModel._generate_remove
generate_remove(c, f, u) ==
    {IF file.res = "error" THEN Error(file.err)
     ELSE IF file.res = "none" THEN Error("AttributeError")
     ELSE from_playbook_line("rm", <<Cmd("rm")>> \o PathWords(AsSimPath(file.path)))
     : file \in get_random_file(f, "any", {}, NoFilter)}

\* KADModel._generate_extend
generate_extend(c, f, u) ==
    UNION {IF path.res = "error" THEN {Error(path.err)}
           ELSE IF path.res = "none" THEN {Error("AttributeError")}
           ELSE {IF file_size.ok
                 THEN from_playbook_line("extend", WriteLine("extend", path.path, file_size.v, c))
                 ELSE Error(file_size.err)
                 : file_size \in generate_operation_size(c, 1, get_free_space(u))}
           : path \in get_random_file(f, "regular", {}, NoFilter)}

\* KADModel._generate_shrink
generate_shrink(c, f, u) ==
    LET file_filter == [on |-> TRUE, file_type |-> "regular", min_size |-> 2 * c.chunk_size,
                        bounded |-> FALSE, max_size |-> 0, excluded |-> {}]
    IN UNION {IF path.res = "error" THEN {Error(path.err)}
              ELSE IF path.res = "none" THEN {Error("AttributeError")}
              ELSE {IF shrink_size.ok
                    THEN from_playbook_line("shrink",
                            <<Cmd("shrink")>> \o PathWords(AsSimPath(path.path))
                            \o <<KV("shrink_size", Num(shrink_size.v, ""))>>)
                    ELSE Error(shrink_size.err)
                    : shrink_size \in generate_operation_size(c, 1,
                                          get_size_of(f, path.path) - 1)}
              : path \in get_random_file(f, "any", {}, file_filter)}

\* the free space below which __next__ takes the disk as full
FULL_DISK_FREE == 512

\* the names __next__ draws from in regular mode
valid_ops(f, u) ==
    IF get_free_space(u) < FULL_DISK_FREE THEN {"rm", "shrink"}
    ELSE IF empty(f) THEN {"write"}
    ELSE {"write", "rm", "extend", "shrink"}

\* the weights of the draw: the one name of an empty file system has weight 1.0
valid_weights(c, f, u) ==
    IF get_free_space(u) >= FULL_DISK_FREE /\ empty(f)
    THEN [n \in {"write", "rm", "extend", "shrink"} |-> 1]
    ELSE compute_op_biases(c)

\* the generators __next__ may dispatch to in mode m; "ValueError" when
\* random.choices finds no positive weight
op_names(c, m, f, u) ==
    IF m = PREVENT_EMPTY_DISK THEN {"write"}
    ELSE IF m = PREVENT_FILLED_DISK THEN {"rm"}
    ELSE LET names == Choices(valid_ops(f, u), valid_weights(c, f, u))
         IN IF names = {} THEN {"ValueError"} ELSE names

generate(op_name, c, f, u) ==
    CASE op_name = "write" -> generate_write(c, f, u)
      [] op_name = "rm" -> generate_remove(c, f, u)
      [] op_name = "extend" -> generate_extend(c, f, u)
      [] op_name = "shrink" -> generate_shrink(c, f, u)
      [] OTHER -> {Error(op_name)}

-----------------------------------------------------------------------------
(* The components at rest *)

Calls(count, total, largest) == [count |-> count, total |-> total, largest |-> largest]

FsIdle == fs = EmptyFs /\ used = 0

KADIdle ==
    /\ kpc = "idle"
    /\ kcfg = [steps |-> 0]
    /\ current_step = 0
    /\ mode = REGULAR
    /\ kop = Error("none")
    /\ kcmd = "none"
    /\ prevMode = REGULAR
    /\ obs = 0
    /\ wPhase = FALSE
    /\ dPhase = FALSE
    /\ wPhaseBefore = FALSE

CodecIdle ==
    /\ cpc = "idle"
    /\ cop = Error("none")
    /\ cline = NoLine("none")
    /\ cback = Error("none")

ShrinkIdle ==
    /\ spc = "idle"
    /\ sop = Error("none")
    /\ s_shrink_size = 0
    /\ s_file_size = 0

WriteIdle ==
    /\ wpc = "idle"
    /\ wop = NoOp
    /\ w_chunk_size = 0
    /\ byte_num_to_add = 0
    /\ write_calls = Calls(0, 0, 0)

PlaybookIdle ==
    /\ ppc = "idle"
    /\ playbook = <<>>
    /\ operations = <<>>
    /\ returned = <<>>

CaseyIdle ==
    /\ cypc = "idle"
    /\ cycfg = [series_num |-> 0]

ProbIdle ==
    /\ rpc = "idle"
    /\ rcfg = [steps |-> 0]
    /\ r_current_step = 0
    /\ rop = Error("none")
    /\ rcmd = "none"

IterIdle ==
    /\ piter = 0
    /\ late = <<>>
    /\ late_calls = 0

QueryIdle ==
    /\ qpc = "idle"
    /\ qarg = <<>>
    /\ qres = NoneFound
    /\ qtries = 0
    /\ qname_length = 0

ParseIdle ==
    /\ lpc = "idle"
    /\ lwords = <<>>
    /\ lback = Error("none")

ExecIdle ==
    /\ xpc = "idle"
    /\ xop = Error("none")
    /\ xfs = EmptyFs

MountIdle ==
    /\ mpc = "idle"
    /\ mpath = <<>>
    /\ mnormalized = <<>>
    /\ mreal = <<>>

FragIdle ==
    /\ gpc = "idle"
    /\ gfragments = <<>>
    /\ gmerged = <<>>

-----------------------------------------------------------------------------
(* KADModel: the run *)

KADConfig(steps, chunk_size, factors, size_factors, rr_min, rr_max, wl_start, wl_stop, dl_start, dl_stop) ==
    [steps |-> steps, chunk_size |-> chunk_size, operation_factors |-> factors,
     size_factors |-> size_factors, rr_min |-> rr_min, rr_max |-> rr_max,
     wl_start |-> wl_start, wl_stop |-> wl_stop, dl_start |-> dl_start, dl_stop |-> dl_stop]

Factors(w, d, i, s) == [n \in {"write", "delete", "increase", "decrease"} |->
                           CASE n = "write" -> w [] n = "delete" -> d
                             [] n = "increase" -> i [] n = "decrease" -> s]

SizeFactor(size, weight) == [size |-> size, weight |-> weight]

\* the thresholds tried: every multiple of 1 / LimitGrid from below 0 to above 1
Limits == (0 - 1)..(LimitGrid + 1)

\* configurations that differ in their four thresholds only
ThresholdConfigs ==
    {KADConfig(MaxSteps, 256, Factors(1, 1, 1, 1), <<SizeFactor(1, 1)>>, 1, 1, a, b, c, d)
        : a \in Limits, b \in Limits, c \in Limits, d \in Limits}

\* configurations that differ in the other parameters
OtherConfigs ==
    {KADConfig(steps, chunk_size, factors, <<SizeFactor(1, 1), SizeFactor(2, 1)>>,
               0, 1, 1, 2, LimitGrid, LimitGrid - 1)
        : steps \in {0, MaxSteps}, chunk_size \in {0, 1, 256, 2048},
          factors \in {Factors(1, 1, 1, 1), Factors(1, 0, 0, 0), Factors(0, 0, 0, 0)}}

KADConfigs == ThresholdConfigs \cup OtherConfigs

\* the file systems a run may start on
InitialFs ==
    {EmptyFs,
     [EmptyFs EXCEPT ![<<"a">>] = Directory, ![<<"a", "a">>] = RegularFile(256),
                     ![<<"b">>] = RegularFile(512)],
     [EmptyFs EXCEPT ![<<"b">>] = RegularFile(2)]}

KADInit ==
    /\ kcfg \in KADConfigs
    /\ kpc = "new"
    /\ current_step = 0
    /\ mode = REGULAR
    /\ kop = Error("none")
    /\ kcmd = "none"
    /\ prevMode = REGULAR
    /\ obs = 0
    /\ wPhase = FALSE
    /\ dPhase = FALSE
    /\ wPhaseBefore = FALSE
    /\ FsIdle
    /\ CodecIdle
    /\ ShrinkIdle
    /\ WriteIdle
    /\ PlaybookIdle
    /\ CaseyIdle
    /\ ProbIdle
    /\ IterIdle
    /\ QueryIdle
    /\ ParseIdle
    /\ ExecIdle
    /\ MountIdle
    /\ FragIdle

\* KADModel.__init__: the configuration is validated, then the fields are set
KADConstruct ==
    /\ kpc = "new"
    /\ kpc' = IF validate_config(kcfg) THEN "constructed" ELSE "rejected"
    /\ current_step' = 0
    /\ mode' = REGULAR
    /\ UNCHANGED <<kcfg, kop, kcmd, prevMode, obs, wPhase, dPhase, wPhaseBefore, fs, used>>

\* UsageModel.set_simulation_parameters: the model is given its file system
KADSetSimulationParameters ==
    /\ kpc = "constructed"
    /\ fs' \in InitialFs
    /\ used' \in UsageValues
    /\ kpc' = "ready"
    /\ UNCHANGED <<kcfg, current_step, mode, kop, kcmd, prevMode, obs, wPhase, dPhase,
                   wPhaseBefore>>

\* KADModel.__next__ while steps remain: the mode is updated from the usage,
\* then one operation is generated and returned, or an exception leaves the call
KADNextOperation ==
    /\ kpc = "ready"
    /\ current_step < kcfg.steps
    /\ current_step' = current_step + 1
    /\ LET m == update_model_state(kcfg, mode, used)
       IN /\ mode' = m
          /\ \E op_name \in op_names(kcfg, m, fs, used) :
                \E r \in generate(op_name, kcfg, fs, used) :
                    /\ kcmd' = op_name
                    /\ kop' = r
                    /\ kpc' = IF r.ok THEN "emitted" ELSE "failed"
    /\ prevMode' = mode
    /\ obs' = used
    /\ wPhaseBefore' = wPhase
    /\ wPhase' = (UsageBelow(used, kcfg.wl_start)
                    \/ (wPhase /\ UsageBelow(used, kcfg.wl_stop)))
    /\ dPhase' = (UsageAbove(used, kcfg.dl_start)
                    \/ (dPhase /\ UsageAbove(used, kcfg.dl_stop)))
    /\ UNCHANGED <<kcfg, fs, used>>

\* KADModel.__next__ after the last step: StopIteration
KADStopIteration ==
    /\ kpc = "ready"
    /\ current_step >= kcfg.steps
    /\ kpc' = "stopped"
    /\ UNCHANGED <<kcfg, current_step, mode, kop, kcmd, prevMode, obs, wPhase, dPhase,
                   wPhaseBefore, fs, used>>

\* execute() of the four kinds KADModel emits
kad_execute(f, op) ==
    CASE op.command = "write" -> write_execute(f, op)
      [] op.command = "rm" -> remove_execute(f, op)
      [] op.command = "extend" -> extend_execute(f, op)
      [] op.command = "shrink" -> shrink_execute(f, op)

\* The execution environment runs the operation; the usage the next step
\* sees is whatever the volume then reports
KADExecute ==
    /\ kpc = "emitted"
    /\ LET r == kad_execute(fs, kop.op)
       IN /\ fs' = r.fs
          /\ kpc' = IF r.ok THEN "ready" ELSE "aborted"
    /\ used' \in UsageValues
    /\ UNCHANGED <<kcfg, current_step, mode, kop, kcmd, prevMode, obs, wPhase, dPhase,
                   wPhaseBefore>>

KADNext ==
    /\ \/ KADConstruct
       \/ KADSetSimulationParameters
       \/ KADNextOperation
       \/ KADStopIteration
       \/ KADExecute
    /\ UNCHANGED <<codecVars, shrinkVars, writeVars, playbookVars, caseyVars,
                 probVars, iterVars, queryVars, parseVars, execVars,
                   mountVars, fragVars>>

SpecKAD == KADInit /\ [][KADNext]_vars

-----------------------------------------------------------------------------
(* KADModel: properties *)

\* a call of __next__ has been made and has either returned or raised
KADStepped == current_step > 0

\* C1: write hysteresis.  wPhase holds after a step exactly when some step
\* observed a usage below write_limit.start and every usage observed since
\* (this step's included) stayed below write_limit.stop.  In such a step the
\* model is in PREVENT_EMPTY_DISK, the operation it generates is a write, and
\* the operation the step returns is a Write.  The step returns one unless
\* the volume has no room for a single chunk or the search for an unused
\* path gives up; the step then raises and the traversal is over.
C1_WriteHysteresis ==
    (KADStepped /\ wPhase) =>
        /\ mode = PREVENT_EMPTY_DISK
        /\ kcmd = "write"
        /\ (kop.ok => kop.op.command = "write")
        /\ (~kop.ok => \/ get_free_space(obs) < kcfg.chunk_size
                       \/ kop.err = "SimulationError")

\* a second forced Write, on a usage that is back above write_limit.start
C1_Witness ==
    /\ kpc = "emitted"
    /\ wPhase
    /\ wPhaseBefore
    /\ ~UsageBelow(obs, kcfg.wl_start)
    /\ kop.op.command = "write"

\* C2: the first step after a forced-write phase that observes a usage of at
\* least write_limit.stop is no longer in PREVENT_EMPTY_DISK.
C2_LeavesForcedWrite ==
    (KADStepped /\ wPhaseBefore /\ ~UsageBelow(obs, kcfg.wl_stop)) =>
        mode # PREVENT_EMPTY_DISK

\* C3: delete hysteresis.  dPhase holds after a step exactly when some step
\* observed a usage above delete_limit.start and every usage observed since
\* (this step's included) stayed above delete_limit.stop.  In such a step the
\* model is in PREVENT_FILLED_DISK, the operation it generates is a remove,
\* and the operation the step returns is a Remove of an entry that is active
\* when the step is taken.  The step returns one unless no entry is active;
\* the step then raises and the traversal is over.
C3_DeleteHysteresis ==
    (KADStepped /\ dPhase) =>
        /\ mode = PREVENT_FILLED_DISK
        /\ kcmd = "rm"
        /\ (kop.ok => kop.op.command = "rm")
        /\ (kpc = "emitted" => Exists(fs, RealPath(kop.op.path)))
        /\ (~kop.ok => empty(fs))

\* a second forced Remove, on a usage that is back at or below delete_limit.start
C3_Witness ==
    /\ kpc = "emitted"
    /\ dPhase
    /\ ~UsageAbove(obs, kcfg.dl_start)
    /\ kop.op.command = "rm"
    /\ Exists(fs, RealPath(kop.op.path))

\* the rule of the three bands, with the mode kept outside them
TransitionRule(c, m, u) ==
    IF UsageBelow(u, c.wl_start) THEN PREVENT_EMPTY_DISK
    ELSE IF UsageAbove(u, c.dl_start) THEN PREVENT_FILLED_DISK
    ELSE IF ~UsageBelow(u, c.wl_stop) /\ ~UsageAbove(u, c.dl_stop) THEN REGULAR
    ELSE m

\* how many of the three conditions a usage satisfies
BandsHit(c, u) ==
    Cardinality({i \in 1..3 :
        \/ i = 1 /\ UsageBelow(u, c.wl_start)
        \/ i = 2 /\ UsageAbove(u, c.dl_start)
        \/ i = 3 /\ ~UsageBelow(u, c.wl_stop) /\ ~UsageAbove(u, c.dl_stop)})

\* C4: a constructed model is in REGULAR; after every step the mode is the
\* one the three-band rule gives for the mode before the step and the usage
\* the step observed; for an accepted configuration no usage satisfies more
\* than one of the three conditions.
C4_ModeTransitionRule ==
    /\ (kpc = "constructed" => mode = REGULAR)
    /\ (KADStepped => mode = TransitionRule(kcfg, prevMode, obs))
    /\ (kpc \notin {"new", "rejected"} => \A u \in UsageValues : BandsHit(kcfg, u) <= 1)

\* a step between the bands that keeps a forced mode
C4_Witness ==
    /\ KADStepped
    /\ prevMode = PREVENT_FILLED_DISK
    /\ mode = PREVENT_FILLED_DISK
    /\ BandsHit(kcfg, obs) = 0

\* the chain of the thresholds, with equalities allowed everywhere
ChainWithEqualities(c) ==
    /\ 0 <= c.wl_start
    /\ c.wl_start <= c.wl_stop
    /\ c.wl_stop <= c.dl_stop
    /\ c.dl_stop <= c.dl_start
    /\ c.dl_start <= LimitGrid

\* the chain with the two stop thresholds apart
ChainWithDistinctStops(c) ==
    /\ 0 <= c.wl_start
    /\ c.wl_start <= c.wl_stop
    /\ c.wl_stop < c.dl_stop
    /\ c.dl_stop <= c.dl_start
    /\ c.dl_start <= LimitGrid

\* C5 as stated: construction accepts exactly the configurations whose
\* thresholds satisfy 0 <= write.start <= write.stop <= delete.stop <=
\* delete.start <= 1.
C5_AcceptsChainWithEqualities ==
    (kpc # "new" /\ kcfg \in ThresholdConfigs) =>
        ((kpc # "rejected") <=> ChainWithEqualities(kcfg))

\* C5: construction accepts exactly the configurations whose thresholds
\* satisfy 0 <= write.start <= write.stop < delete.stop <= delete.start <= 1,
\* the other parameters being valid.
C5_AcceptsChainWithDistinctStops ==
    (kpc # "new" /\ kcfg \in ThresholdConfigs) =>
        ((kpc # "rejected") <=> ChainWithDistinctStops(kcfg))

\* an accepted configuration with equal start and stop thresholds on each side
C5_Witness ==
    /\ kpc = "constructed"
    /\ kcfg \in ThresholdConfigs
    /\ kcfg.wl_start = kcfg.wl_stop
    /\ kcfg.dl_start = kcfg.dl_stop

-----------------------------------------------------------------------------
(* The codec: an operation is constructed, written as a line, and read back *)

\* the paths handed to the constructors: absolute, relative, and one whose
\* last component holds a blank
CodecPaths ==
    {SimPath(TRUE, <<"a">>, <<>>),
     SimPath(FALSE, <<"a", "b">>, <<>>),
     SimPath(TRUE, <<"my">>, <<"file">>)}

\* the constructor calls tried, each with what it returns or raises
CodecOps ==
    {Copy(c, p, q) : c \in {"cp", "mv"}, p \in CodecPaths, q \in CodecPaths}
    \cup {Mkdir(c, p) : c \in {"mkdir", "rm"}, p \in CodecPaths}
    \cup {Shrink(p, n) : p \in CodecPaths, n \in {0, 1, 1024}}
    \cup {Write(c, p, n, b, k, g) : c \in {"write", "extend"}, p \in CodecPaths,
                                   n \in {0, 1, 1024}, b \in BOOLEAN,
                                   k \in {0, 1, DEFAULT_CHUNK_SIZE},
                                   g \in {"random", "pattern"}}
    \cup {Sleep(d) : d \in {0 - 1, 0, 5}}
    \cup {Time(t) : t \in {"2024-01-01T00:00:00"}}

CodecInit ==
    /\ cpc = "start"
    /\ cop = Error("none")
    /\ cline = NoLine("none")
    /\ cback = Error("none")
    /\ FsIdle
    /\ KADIdle
    /\ ShrinkIdle
    /\ WriteIdle
    /\ PlaybookIdle
    /\ CaseyIdle
    /\ ProbIdle
    /\ IterIdle
    /\ QueryIdle
    /\ ParseIdle
    /\ ExecIdle
    /\ MountIdle
    /\ FragIdle

\* an operation's constructor is called
CodecConstruct ==
    /\ cpc = "start"
    /\ \E r \in CodecOps :
          /\ cop' = r
          /\ cpc' = IF r.ok THEN "constructed" ELSE "refused"
    /\ UNCHANGED <<cline, cback>>

\* op.as_playbook_line()
CodecAsPlaybookLine ==
    /\ cpc = "constructed"
    /\ cline' = as_playbook_line(cop.op)
    /\ cpc' = IF cline'.ok THEN "written" ELSE "write_failed"
    /\ UNCHANGED <<cop, cback>>

\* type(op).from_playbook_line(line)
CodecFromPlaybookLine ==
    /\ cpc = "written"
    /\ cback' = from_playbook_line(cop.op.command, cline.words)
    /\ cpc' = "read"
    /\ UNCHANGED <<cop, cline>>

CodecNext ==
    /\ \/ CodecConstruct
       \/ CodecAsPlaybookLine
       \/ CodecFromPlaybookLine
    /\ UNCHANGED <<fsVars, kadVars, shrinkVars, writeVars, playbookVars, caseyVars,
                 probVars, iterVars, queryVars, parseVars, execVars,
                   mountVars, fragVars>>

SpecCodec == CodecInit /\ [][CodecNext]_vars

\* C6: for every operation that can be constructed, as_playbook_line() gives
\* a line, from_playbook_line of that line gives an operation, and the
\* as_dict() of that operation equals the as_dict() of the first.
C6_RoundTrip ==
    /\ cpc # "write_failed"
    /\ (cpc = "read" => cback.ok /\ as_dict(cback.op) = as_dict(cop.op))

-----------------------------------------------------------------------------
(* Shrink: one operation on one file *)

\* largest file size tried
MaxFileSize == 4

\* the file the operations are aimed at, a directory, and a path that is absent
ShrinkFile == <<"a">>
ShrinkTargets == {ShrinkFile, <<"b">>, <<"b", "a">>}

ShrinkInit ==
    /\ spc = "start"
    /\ sop = Error("none")
    /\ s_shrink_size = 0
    /\ s_file_size \in 0..MaxFileSize
    /\ fs = [EmptyFs EXCEPT ![ShrinkFile] = RegularFile(s_file_size), ![<<"b">>] = Directory]
    /\ used = 0
    /\ KADIdle
    /\ CodecIdle
    /\ WriteIdle
    /\ PlaybookIdle
    /\ CaseyIdle
    /\ ProbIdle
    /\ IterIdle
    /\ QueryIdle
    /\ ParseIdle
    /\ ExecIdle
    /\ MountIdle
    /\ FragIdle

\* Shrink(path, shrink_size)
ShrinkConstruct ==
    /\ spc = "start"
    /\ \E p \in ShrinkTargets, n \in (0 - 1)..(MaxFileSize + 1) :
          /\ sop' = Shrink(AsSimPath(p), n)
          /\ s_shrink_size' = n
          /\ spc' = IF sop'.ok THEN "constructed" ELSE "refused"
    /\ UNCHANGED <<s_file_size, fs, used>>

\* Shrink.from_playbook_line("shrink <path> shrink_size=<n>")
ShrinkFromPlaybookLine ==
    /\ spc = "start"
    /\ \E p \in ShrinkTargets, n \in (0 - 1)..(MaxFileSize + 1) :
          /\ sop' = shrink_from_playbook_line(
                        <<Cmd("shrink")>> \o PathWords(AsSimPath(p))
                        \o <<KV("shrink_size", Num(n, ""))>>)
          /\ s_shrink_size' = n
          /\ spc' = IF sop'.ok THEN "constructed" ELSE "refused"
    /\ UNCHANGED <<s_file_size, fs, used>>

\* Shrink.execute(): spc names the exception when one is raised
ShrinkExecute ==
    /\ spc = "constructed"
    /\ LET r == shrink_execute(fs, sop.op)
       IN /\ fs' = r.fs
          /\ spc' = IF r.ok THEN "done" ELSE r.err
    /\ UNCHANGED <<sop, s_shrink_size, s_file_size, used>>

ShrinkNext ==
    /\ \/ ShrinkConstruct
       \/ ShrinkFromPlaybookLine
       \/ ShrinkExecute
    /\ UNCHANGED <<kadVars, codecVars, writeVars, playbookVars, caseyVars,
                 probVars, iterVars, queryVars, parseVars, execVars,
                   mountVars, fragVars>>

SpecShrink == ShrinkInit /\ [][ShrinkNext]_vars

\* the operation is over: its constructor raised, or execute() returned or raised
ShrinkOver == spc \notin {"start", "constructed"}

\* the operation was aimed at the regular file, or was never constructed
OnShrinkFile == sop.ok => RealPath(sop.op.path) = ShrinkFile

\* C7 as stated: a Shrink by n of the file of size S leaves size S - n when
\* 1 <= n < S, and raises SimulationError, the size still S, when n >= S or n < 1.
C7_ShrinkAsStated ==
    (ShrinkOver /\ OnShrinkFile) =>
        /\ (1 <= s_shrink_size /\ s_shrink_size < s_file_size) =>
                (spc = "done" /\ fs[ShrinkFile].size = s_file_size - s_shrink_size)
        /\ (s_shrink_size >= s_file_size \/ s_shrink_size < 1) =>
                (spc = "SimulationError" /\ fs[ShrinkFile].size = s_file_size)

\* C7: a Shrink by n of the file of size S leaves size S - n when 1 <= n <= S
\* and raises SimulationError, the size still S, when n > S; for n < 1 the
\* operation is refused when it is constructed (ValueError from the
\* constructor, PlaybookError from a playbook line) and the size stays S.
C7_Shrink ==
    (ShrinkOver /\ OnShrinkFile) =>
        /\ (1 <= s_shrink_size /\ s_shrink_size <= s_file_size) =>
                (spc = "done" /\ fs[ShrinkFile].size = s_file_size - s_shrink_size)
        /\ (s_shrink_size > s_file_size /\ s_shrink_size >= 1) =>
                (spc = "SimulationError" /\ fs[ShrinkFile].size = s_file_size)
        /\ (s_shrink_size < 1) =>
                (spc = "refused" /\ sop.err \in {"ValueError", "PlaybookError"}
                    /\ fs[ShrinkFile].size = s_file_size)

\* a file shrunk to nothing
C7_Witness ==
    /\ spc = "done"
    /\ RealPath(sop.op.path) = ShrinkFile
    /\ s_file_size >= 1
    /\ s_shrink_size = s_file_size
    /\ fs[ShrinkFile].size = 0

-----------------------------------------------------------------------------
(* Write and Extend: the write loop, one f.write call at a time *)

\* largest write size and chunk size tried with chunked=True
MaxWriteSize == 5
MaxChunk == 3

\* write sizes around the largest single call, tried with chunked=False
BigSizes ==
    {MAX_CHUNK_SIZE - 1, MAX_CHUNK_SIZE, MAX_CHUNK_SIZE + 1,
     2 * MAX_CHUNK_SIZE, 2 * MAX_CHUNK_SIZE + 1}

\* a regular file, a directory, and a path that is absent
WriteTargets == {<<"a">>, <<"b">>, <<"b", "a">>}

\* variant: everything that is left goes into one call
byte_num_for_step_all_at_once(chunk, left) == left

\* byte_num_for_step of _write_to_file
byte_num_for_step(chunk, left) == IF chunk <= left THEN chunk ELSE left

\* ceil(n / c) for c > 0
Ceil(n, c) == (n + c - 1) \div c

WriteInit ==
    /\ wpc = "start"
    /\ wop = NoOp
    /\ w_chunk_size = 0
    /\ byte_num_to_add = 0
    /\ write_calls = Calls(0, 0, 0)
    /\ \E n \in {0, MaxWriteSize} :
          fs = [EmptyFs EXCEPT ![<<"a">>] = RegularFile(n), ![<<"b">>] = Directory]
    /\ used = 0
    /\ KADIdle
    /\ CodecIdle
    /\ ShrinkIdle
    /\ PlaybookIdle
    /\ CaseyIdle
    /\ ProbIdle
    /\ IterIdle
    /\ QueryIdle
    /\ ParseIdle
    /\ ExecIdle
    /\ MountIdle
    /\ FragIdle

\* Write(path, size, chunked, chunk_size) or Extend(path, extend_size, chunked, chunk_size)
WriteConstruct ==
    /\ wpc = "start"
    /\ \E command \in {"write", "extend"}, p \in WriteTargets, chunked \in BOOLEAN,
          n \in 0..MaxWriteSize \cup BigSizes, c \in 0..MaxChunk :
          /\ (n \in BigSizes => ~chunked)
          /\ LET r == Write(command, AsSimPath(p), n, chunked, c, "random")
             IN /\ wop' = r.op
                /\ wpc' = IF r.ok THEN "constructed" ELSE "refused"
    /\ UNCHANGED <<w_chunk_size, byte_num_to_add, write_calls, fs, used>>

\* execute() up to the loop: the chunk size is chosen, the path is checked,
\* the file is opened ("wb" empties or creates it, "ab" keeps it)
WriteOpen ==
    /\ wpc = "constructed"
    /\ LET real_path == RealPath(wop.path)
           failed == \/ wop.command = "extend" /\ ~Exists(fs, real_path)
                     \/ IsDir(fs, real_path)
                     \/ ~IsDir(fs, Parent(real_path))
       IN /\ wpc' = IF failed THEN "failed" ELSE "open"
          /\ fs' = IF failed \/ wop.command = "extend" THEN fs
                   ELSE [fs EXCEPT ![real_path] = RegularFile(0)]
    /\ w_chunk_size' = IF wop.chunked THEN wop.chunk_size ELSE MAX_CHUNK_SIZE
    /\ byte_num_to_add' = wop.size
    /\ write_calls' = Calls(0, 0, 0)
    /\ UNCHANGED <<wop, used>>

\* one turn of the loop: f.write(self._data.generate(byte_num_for_step))
WriteChunk ==
    /\ wpc = "open"
    /\ byte_num_to_add # 0
    /\ LET n == byte_num_for_step(w_chunk_size, byte_num_to_add)
           real_path == RealPath(wop.path)
       IN /\ fs' = [fs EXCEPT ![real_path] = RegularFile(fs[real_path].size + n)]
          /\ byte_num_to_add' = byte_num_to_add - n
          /\ write_calls' = Calls(write_calls.count + 1, write_calls.total + n,
                                  IF n > write_calls.largest THEN n ELSE write_calls.largest)
    /\ UNCHANGED <<wpc, wop, w_chunk_size, used>>

\* the loop ends and the file is closed
WriteClose ==
    /\ wpc = "open"
    /\ byte_num_to_add = 0
    /\ wpc' = "done"
    /\ UNCHANGED <<wop, w_chunk_size, byte_num_to_add, write_calls, fs, used>>

WriteNext ==
    /\ \/ WriteConstruct
       \/ WriteOpen
       \/ WriteChunk
       \/ WriteClose
    /\ UNCHANGED <<kadVars, codecVars, shrinkVars, playbookVars, caseyVars,
                 probVars, iterVars, queryVars, parseVars, execVars,
                   mountVars, fragVars>>

SpecWrite == WriteInit /\ [][WriteNext]_vars

\* C8: an executed Write or Extend has size N > 0 and a chunk size C > 0, C
\* being chunk_size when chunked and 2^28 - 1 otherwise; no call writes more
\* than C bytes; the bytes written and the bytes left add up to N; the loop
\* never makes more than ceil(N / C) calls, and when it has ended it has made
\* exactly ceil(N / C) calls that wrote exactly N bytes.
C8_ChunkedWriting ==
    (wpc \in {"open", "done"}) =>
        /\ wop.size > 0
        /\ w_chunk_size > 0
        /\ w_chunk_size = (IF wop.chunked THEN wop.chunk_size ELSE 268435455)
        /\ write_calls.largest <= w_chunk_size
        /\ byte_num_to_add >= 0
        /\ write_calls.total + byte_num_to_add = wop.size
        /\ write_calls.count <= Ceil(wop.size, w_chunk_size)
        /\ (wpc = "done" =>
                /\ write_calls.count = Ceil(wop.size, w_chunk_size)
                /\ write_calls.total = wop.size)

\* a chunked write whose last call is shorter than the others
C8_Witness ==
    /\ wpc = "done"
    /\ wop.chunked
    /\ write_calls.count >= 2
    /\ wop.size % w_chunk_size # 0
    /\ write_calls.largest = w_chunk_size

-----------------------------------------------------------------------------
(* PlaybookModel: the playbook is parsed at construction and replayed *)

\* number of lines of a playbook
MaxLines == 3

\* the lines a playbook is made of, stripped and split into words: a blank
\* line, comments, well-formed operations, and lines that cannot be parsed
BlankLine == <<>>
CommentLines ==
    {<<Cmd("#")>>,
     <<Cmd("#create"), PathWord(SimPath(TRUE, <<"a">>, <<>>))>>}
GoodLines ==
    {<<Cmd("mkdir"), PathWord(SimPath(TRUE, <<"a">>, <<>>))>>,
     <<Cmd("write"), PathWord(SimPath(FALSE, <<"a", "b">>, <<>>)), KV("size", Num(1, "KiB"))>>,
     <<Cmd("rm"), PathWord(SimPath(TRUE, <<"a">>, <<>>))>>}
BadLines ==
    {<<Cmd("create"), PathWord(SimPath(TRUE, <<"a">>, <<>>)), KV("size", Num(1, ""))>>,
     <<Cmd("rm"), PathWord(SimPath(TRUE, <<"a">>, <<>>)), KV("size", Num(1, ""))>>,
     <<Cmd("time")>>}
PlaybookLines == {BlankLine} \cup CommentLines \cup GoodLines \cup BadLines

RECURSIVE PlaybooksOfLength(_)
PlaybooksOfLength(n) ==
    IF n = 0 THEN {<<>>}
    ELSE {Append(b, l) : b \in PlaybooksOfLength(n - 1), l \in PlaybookLines}

Playbooks == UNION {PlaybooksOfLength(n) : n \in 0..MaxLines}

\* not line or line.startswith("#")
Skipped(line) == Len(line) = 0 \/ line[1].key \in {"#", "#create"}

\* PlaybookModel._parse_playbook_line: an unknown command is a PlaybookError
parse_playbook_line(line) ==
    LET operation == line[1].key
        r == from_playbook_line(operation, line)
    IN IF ~r.ok /\ r.err = "KeyError" THEN Error("PlaybookError") ELSE r

Operations(ops) == [ok |-> TRUE, ops |-> ops, err |-> "none"]
NoOperations(e) == [ok |-> FALSE, ops |-> <<>>, err |-> e]

\* variant of the loop: a line that cannot be parsed is skipped
RECURSIVE parse_lines_leniently(_, _, _)
parse_lines_leniently(lines, i, ops) ==
    IF i > Len(lines) THEN Operations(ops)
    ELSE IF Skipped(lines[i]) THEN parse_lines_leniently(lines, i + 1, ops)
    ELSE LET r == parse_playbook_line(lines[i])
         IN IF ~r.ok THEN parse_lines_leniently(lines, i + 1, ops)
            ELSE parse_lines_leniently(lines, i + 1, Append(ops, r.op))

\* the loop of _parse_playbook: any exception of a line becomes a PlaybookError
RECURSIVE parse_lines(_, _, _)
parse_lines(lines, i, ops) ==
    IF i > Len(lines) THEN Operations(ops)
    ELSE IF Skipped(lines[i]) THEN parse_lines(lines, i + 1, ops)
    ELSE LET r == parse_playbook_line(lines[i])
         IN IF ~r.ok THEN NoOperations("PlaybookError")
            ELSE parse_lines(lines, i + 1, Append(ops, r.op))

\* variant: unparsable lines are dropped
parse_playbook_dropping_bad_lines(lines) ==
    LET r == parse_lines_leniently(lines, 1, <<>>)
    IN IF r.ok /\ Len(r.ops) = 0 THEN NoOperations("PlaybookError") ELSE r

\* PlaybookModel._parse_playbook
parse_playbook(lines) ==
    LET r == parse_lines(lines, 1, <<>>)
    IN IF r.ok /\ Len(r.ops) = 0 THEN NoOperations("PlaybookError") ELSE r

PlaybookInit ==
    /\ ppc = "new"
    /\ playbook \in Playbooks
    /\ operations = <<>>
    /\ returned = <<>>
    /\ FsIdle
    /\ KADIdle
    /\ CodecIdle
    /\ ShrinkIdle
    /\ WriteIdle
    /\ CaseyIdle
    /\ ProbIdle
    /\ IterIdle
    /\ QueryIdle
    /\ ParseIdle
    /\ ExecIdle
    /\ MountIdle
    /\ FragIdle

\* PlaybookModel.__init__ on an existing playbook file: ppc names the
\* exception when one is raised
PlaybookConstruct ==
    /\ ppc = "new"
    /\ LET r == parse_playbook(playbook)
       IN /\ operations' = r.ops
          /\ ppc' = IF r.ok THEN "constructed" ELSE r.err
    /\ UNCHANGED <<playbook, returned>>

\* next() on iter(model) while operations are left
PlaybookNextOperation ==
    /\ ppc = "constructed"
    /\ Len(returned) < Len(operations)
    /\ returned' = Append(returned, operations[Len(returned) + 1])
    /\ UNCHANGED <<ppc, playbook, operations>>

\* next() on iter(model) after the last operation
PlaybookStopIteration ==
    /\ ppc = "constructed"
    /\ Len(returned) = Len(operations)
    /\ ppc' = "ended"
    /\ UNCHANGED <<playbook, operations, returned>>

PlaybookSteps ==
    \/ PlaybookConstruct
    \/ PlaybookNextOperation
    \/ PlaybookStopIteration

PlaybookNext ==
    /\ PlaybookSteps
    /\ UNCHANGED <<fsVars, kadVars, codecVars, shrinkVars, writeVars, caseyVars,
                 probVars, iterVars, queryVars, parseVars, execVars,
                   mountVars, fragVars>>

SpecPlaybook == PlaybookInit /\ [][PlaybookNext]_vars

\* the lines of a playbook that are neither blank nor comments
OperationLines(lines) == SelectSeq(lines, LAMBDA l : ~Skipped(l))

\* what each operation line stands for, in file order
ExpectedOperations(lines) ==
    [i \in 1..Len(OperationLines(lines)) |-> parse_playbook_line(OperationLines(lines)[i]).op]

\* some operation line cannot be parsed, or there is no operation line
InvalidPlaybook(lines) ==
    \/ \E i \in 1..Len(OperationLines(lines)) : ~parse_playbook_line(OperationLines(lines)[i]).ok
    \/ Len(OperationLines(lines)) = 0

\* C9: construction raises PlaybookError exactly when some line that is
\* neither blank nor a comment is invalid or no operation line exists, and
\* then no operation is ever returned; otherwise the operations held are the
\* parsed operation lines in file order, the operations returned so far are
\* a prefix of them, and at the end all of them have been returned.
C9_AtomicValidation ==
    (ppc # "new") =>
        /\ (InvalidPlaybook(playbook) => ppc = "PlaybookError" /\ returned = <<>>)
        /\ (~InvalidPlaybook(playbook) =>
                /\ ppc \in {"constructed", "ended"}
                /\ operations = ExpectedOperations(playbook)
                /\ Len(returned) <= Len(operations)
                /\ returned = SubSeq(operations, 1, Len(returned))
                /\ (ppc = "ended" => returned = operations))

\* a playbook whose first operation line is good and whose last is not
C9_Witness ==
    /\ ppc = "PlaybookError"
    /\ Len(playbook) = MaxLines
    /\ playbook[1] \in GoodLines
    /\ playbook[MaxLines] \in BadLines
    /\ returned = <<>>

-----------------------------------------------------------------------------
(* The query layer: one call on one tree *)

\* number of active entries of the trees tried
MaxEntries == 3

\* what an entry of a tree may be
Entries == {Directory, RegularFile(256), RegularFile(512)}

\* the places of a tree where a new entry can be put
FreePlaces(t) == {q \in AllPaths : ~Exists(t, q) /\ IsDir(t, Parent(q))}

\* the trees of at most n entries: every entry lies in the root or in a directory
RECURSIVE TreesOfSize(_)
TreesOfSize(n) ==
    IF n = 0 THEN {EmptyFs}
    ELSE LET smaller == TreesOfSize(n - 1)
         IN smaller \cup
            UNION {{[t EXCEPT ![p] = e] : p \in FreePlaces(t), e \in Entries} : t \in smaller}

Trees == TreesOfSize(MaxEntries)

QueryArgs(call, length, skip, file_type, files_to_filter_out, file_filter) ==
    [call |-> call, length |-> length, skip |-> skip, file_type |-> file_type,
     files_to_filter_out |-> files_to_filter_out, file_filter |-> file_filter]

\* FileFilter(file_type=FileType.REGULAR, min_size=n)
RegularOfAtLeast(n) ==
    [on |-> TRUE, file_type |-> "regular", min_size |-> n, bounded |-> FALSE,
     max_size |-> 0, excluded |-> {}]

QueryInit ==
    /\ qpc = "start"
    /\ qarg = <<>>
    /\ qres = NoneFound
    /\ qtries = 0
    /\ qname_length = 0
    /\ fs \in Trees
    /\ used = 0
    /\ KADIdle
    /\ CodecIdle
    /\ ShrinkIdle
    /\ WriteIdle
    /\ PlaybookIdle
    /\ CaseyIdle
    /\ ProbIdle
    /\ IterIdle
    /\ ParseIdle
    /\ ExecIdle
    /\ MountIdle
    /\ FragIdle

\* get_nonexistent_path(length, skip_dir): skip_dir is None or one of the
\* directories of the tree
QueryGetNonexistentPath ==
    /\ qpc = "start"
    /\ \E length \in {DefaultNameLength, MAX_FILE_NAME_LENGTH + 1},
          skip \in {<<>>} \cup {<<d>> : d \in get_files_by_type(fs, "directory")} :
          /\ qarg' = QueryArgs("get_nonexistent_path", length, skip, "any", {}, NoFilter)
          /\ qres' \in get_nonexistent_path(fs, length, skip)
    /\ qpc' = "get_nonexistent_path"
    /\ UNCHANGED <<fs, used, qtries, qname_length>>

\* get_random_file(file_type, files_to_filter_out) and get_random_file(file_filter=...)
QueryGetRandomFile ==
    /\ qpc = "start"
    /\ \/ \E file_type \in {"any", "regular", "directory"},
             out \in {{}} \cup {{p} : p \in get_files(fs)} :
             /\ qarg' = QueryArgs("get_random_file", 0, <<>>, file_type, out, NoFilter)
             /\ qres' \in get_random_file(fs, file_type, out, NoFilter)
       \/ \E n \in {0, 512} :
             /\ qarg' = QueryArgs("get_random_file", 0, <<>>, "any", {}, RegularOfAtLeast(n))
             /\ qres' \in get_random_file(fs, "any", {}, RegularOfAtLeast(n))
    /\ qpc' = "get_random_file"
    /\ UNCHANGED <<fs, used, qtries, qname_length>>

QueryNext ==
    /\ \/ QueryGetNonexistentPath
       \/ QueryGetRandomFile
    /\ UNCHANGED <<kadVars, codecVars, shrinkVars, writeVars, playbookVars, caseyVars,
                   probVars, iterVars, parseVars, execVars,
                   mountVars, fragVars>>

SpecQuery == QueryInit /\ [][QueryNext]_vars

\* C14: a path that get_nonexistent_path returns for a skip directory is
\* neither the skip directory nor a path below it, whatever the tree.
C14_SkipDirectoryAvoided ==
    (qpc = "get_nonexistent_path" /\ qarg.skip # <<>> /\ qres.res = "file") =>
        ~is_subdirectory_of(qres.path, qarg.skip[1])

\* a path returned below another directory while the skip directory holds a
\* directory of its own
C14_Witness ==
    /\ qpc = "get_nonexistent_path"
    /\ qarg.skip # <<>>
    /\ qres.res = "file"
    /\ Len(qres.path) = 2
    /\ \E d \in get_files_by_type(fs, "directory") :
          d # qarg.skip[1] /\ is_subdirectory_of(d, qarg.skip[1])

\* the active entries that meet what a get_random_file call asks for
Qualifying(f, a) ==
    {p \in get_files(f) :
        /\ (a.file_type # "any" => f[p].type = a.file_type)
        /\ p \notin a.files_to_filter_out
        /\ (a.file_filter.on => p \in FileFilter(f, a.file_filter, get_files(f)))}

\* C17: get_random_file returns an active entry that meets the requested
\* type, exclusion set and file filter, and raises SimulationError whenever
\* no active entry meets them.
C17_RandomFileOrSimulationError ==
    (qpc = "get_random_file") =>
        /\ (qres.res = "file" => qres.path \in Qualifying(fs, qarg))
        /\ (Qualifying(fs, qarg) = {} => qres = Raised("SimulationError"))

-----------------------------------------------------------------------------
(* get_nonexistent_path, try by try *)

\* _MAX_TRIES_FOR_NONEXISTENT_PATH
MAX_TRIES_FOR_NONEXISTENT_PATH == 100000

\* length > MAX_FILE_NAME_LENGTH
name_too_long(length) == length > MAX_FILE_NAME_LENGTH

\* variant: a string of one character whatever the length asked for
random_string_of_one(length) == 1

\* get_random_string: one character for each element of range(length)
random_string_length(length) == IF length > 0 THEN length ELSE 0

\* the path components get_random_string can add: none for an empty string
random_names(length) ==
    IF random_string_length(length) = 0 THEN {<<>>} ELSE {<<n>> : n \in Names}

\* the trees searched: nothing, and a directory in which every name is
\* taken below a root in which one name is free
SearchTrees ==
    {EmptyFs,
     [EmptyFs EXCEPT ![<<"a">>] = Directory, ![<<"a", "a">>] = RegularFile(256),
                     ![<<"a", "b">>] = RegularFile(512)]}

SearchLengths == {DefaultNameLength, MAX_FILE_NAME_LENGTH + 1}

SearchInit ==
    /\ qpc = "start"
    /\ qarg = <<>>
    /\ qres = NoneFound
    /\ qtries = 0
    /\ qname_length = 0
    /\ fs \in SearchTrees
    /\ used = 0
    /\ KADIdle
    /\ CodecIdle
    /\ ShrinkIdle
    /\ WriteIdle
    /\ PlaybookIdle
    /\ CaseyIdle
    /\ ProbIdle
    /\ IterIdle
    /\ ParseIdle
    /\ ExecIdle
    /\ MountIdle
    /\ FragIdle

\* get_nonexistent_path up to its loop: a name length above the limit raises
SearchCall ==
    /\ qpc = "start"
    /\ \E length \in SearchLengths,
          skip \in {<<>>} \cup {<<d>> : d \in get_files_by_type(fs, "directory")} :
          /\ qarg' = QueryArgs("get_nonexistent_path", length, skip, "any", {}, NoFilter)
          /\ IF name_too_long(length)
             THEN qpc' = "raised" /\ qres' = Raised("SimulationError")
             ELSE qpc' = "trying" /\ qres' = NoneFound
    /\ UNCHANGED <<fs, used, qtries, qname_length>>

\* one pass of the loop: a path is drawn; it is returned when nothing exists
\* there, the pass with i >= _MAX_TRIES_FOR_NONEXISTENT_PATH raises, every
\* other pass adds 1 to i (qtries is i at the head of the loop)
SearchTry ==
    /\ qpc = "trying"
    /\ \E d \in get_random_directory(fs, qarg.skip), name \in random_names(qarg.length) :
          LET path == d \o name
          IN IF ~Exists(fs, path)
             THEN qpc' = "returned" /\ qres' = Found(path)
             ELSE IF qtries >= MAX_TRIES_FOR_NONEXISTENT_PATH
             THEN qpc' = "raised" /\ qres' = Raised("SimulationError")
             ELSE UNCHANGED <<qpc, qres>>
    /\ qtries' = qtries + 1
    /\ qname_length' = random_string_length(qarg.length)
    /\ UNCHANGED <<fs, used, qarg>>

SearchNext ==
    /\ \/ SearchCall
       \/ SearchTry
    /\ UNCHANGED <<kadVars, codecVars, shrinkVars, writeVars, playbookVars, caseyVars,
                   probVars, iterVars, parseVars, execVars,
                   mountVars, fragVars>>

SpecSearch == SearchInit /\ [][SearchNext]_vars

\* the loop runs whenever it can
SpecSearchFair == SpecSearch /\ WF_vars(SearchNext)

\* what get_nonexistent_path has done so far is within its contract
SearchWithinContract ==
    /\ qtries <= MAX_TRIES_FOR_NONEXISTENT_PATH + 1
    /\ (qpc = "returned") =>
          /\ qres.res = "file"
          /\ ~Exists(fs, qres.path)
          /\ Len(qres.path) >= 1
          /\ IsDir(fs, Parent(qres.path))
          /\ qname_length = qarg.length
    /\ (qpc = "raised") =>
          /\ qres = Raised("SimulationError")
          /\ (qarg.length > MAX_FILE_NAME_LENGTH) => qtries = 0

\* C27: get_nonexistent_path ends for every file system: it returns a path
\* that does not exist, whose name has the length asked for and whose parent
\* is the root or an active directory, or it raises SimulationError after at
\* most 100001 tries; a name length above 255 raises SimulationError before
\* any try.
C27_SearchTerminates ==
    /\ []SearchWithinContract
    /\ <>(qpc \in {"returned", "raised"})

\* every try hit an existing path and the last allowed one raised
C27_Witness ==
    /\ qpc = "raised"
    /\ qarg.length = DefaultNameLength
    /\ qtries = MAX_TRIES_FOR_NONEXISTENT_PATH + 1

-----------------------------------------------------------------------------
(* from_playbook_line on lines of every shape *)

\* number of words a line has after its command
MaxWords == 2

\* the words the lines are made of: a path, well-formed and malformed
\* key=value words, and bare literals
LineWords ==
    {PathWord(SimPath(TRUE, <<"a">>, <<>>)),
     KV("size", Num(1, "")), KV("size", Num(0, "")), KV("size", Text("x")),
     KV("extend_size", Num(1, "")), KV("shrink_size", Num(1, "")),
     KV("chunked", Text("true")), KV("chunked", Text("maybe")),
     KV("bogus", Num(1, "")),
     Lit(Num(5, "")), Lit(Text("soon")), Lit(Text("2024-01-01"))}

RECURSIVE WordsOfLength(_)
WordsOfLength(n) ==
    IF n = 0 THEN {<<>>}
    ELSE {Append(ws, w) : ws \in WordsOfLength(n - 1), w \in LineWords}

\* a registered command followed by up to MaxWords words
ParseLines ==
    {<<Cmd(c)>> \o ws : c \in OperationNames,
                        ws \in UNION {WordsOfLength(n) : n \in 0..MaxWords}}

ParseInit ==
    /\ lpc = "line"
    /\ lwords \in ParseLines
    /\ lback = Error("none")
    /\ FsIdle
    /\ KADIdle
    /\ CodecIdle
    /\ ShrinkIdle
    /\ WriteIdle
    /\ PlaybookIdle
    /\ CaseyIdle
    /\ ProbIdle
    /\ IterIdle
    /\ QueryIdle
    /\ ExecIdle
    /\ MountIdle
    /\ FragIdle

\* get_operations_map()[command].from_playbook_line(line)
ParseLine ==
    /\ lpc = "line"
    /\ lback' = from_playbook_line(lwords[1].key, lwords)
    /\ lpc' = "parsed"
    /\ UNCHANGED lwords

ParseNext ==
    /\ ParseLine
    /\ UNCHANGED <<fsVars, kadVars, codecVars, shrinkVars, writeVars, playbookVars,
                   caseyVars, probVars, iterVars, queryVars, execVars,
                   mountVars, fragVars>>

SpecParse == ParseInit /\ [][ParseNext]_vars

\* C15: whatever the operation kind, a line that from_playbook_line does not
\* turn into an operation makes it raise PlaybookError and no other exception.
C15_MalformedLineRaisesPlaybookError ==
    (lpc = "parsed" /\ ~lback.ok) => lback.err = "PlaybookError"

-----------------------------------------------------------------------------
(* Copy and Move: one operation on one tree *)

\* src.name
NameOf(p) == p[Len(p)]

\* the active entries at and below a path
Below(f, src) == {q \in AllPaths : Exists(f, q) /\ is_subdirectory_of(q, src)}

\* where an entry at or below src lands when src lands at target
Rebase(q, src, target) == target \o SubSeq(q, Len(src) + 1, Len(q))

\* os.makedirs can create target: no path above it is a regular file
CanMakeDirs(f, target) ==
    \A n \in 1..(Len(target) - 1) : ~IsFile(f, SubSeq(target, 1, n))

\* shutil.copytree(src, target) into a target that does not exist: the
\* entries of src are listed before target is made, the directories above
\* target are made as needed
copytree(f, src, target) ==
    [q \in AllPaths |->
        IF \E s \in Below(f, src) : Rebase(s, src, target) = q
        THEN f[CHOOSE s \in Below(f, src) : Rebase(s, src, target) = q]
        ELSE IF ~Exists(f, q) /\ is_subdirectory_of(target, q) THEN Directory
        ELSE f[q]]

\* os.rename(src, target) of a tree, or the copytree and rmtree that
\* shutil.move falls back to
movetree(f, src, target) ==
    [q \in AllPaths |->
        IF \E s \in Below(f, src) : Rebase(s, src, target) = q
        THEN f[CHOOSE s \in Below(f, src) : Rebase(s, src, target) = q]
        ELSE IF is_subdirectory_of(q, src) THEN Absent
        ELSE IF ~Exists(f, q) /\ is_subdirectory_of(target, q) THEN Directory
        ELSE f[q]]

\* Copy.execute: shutil.copy for a regular file, shutil.copytree for a directory
copy_execute(f, op) ==
    LET src == RealPath(op.path)
        dst == RealPath(op.dst)
    IN IF ~Exists(f, src) THEN Abort(f, "SimulationError")
       ELSE IF IsFile(f, src)
       THEN LET target == IF IsDir(f, dst) THEN Append(dst, NameOf(src)) ELSE dst
            IN IF target = src THEN Abort(f, "SameFileError")
               ELSE IF IsDir(f, target) THEN Abort(f, "IsADirectoryError")
               ELSE IF ~IsDir(f, Parent(target)) THEN Abort(f, "FileNotFoundError")
               ELSE Done([f EXCEPT ![target] = f[src]])
       ELSE IF ~Exists(f, dst)
       THEN IF ~CanMakeDirs(f, dst) THEN Abort(f, "NotADirectoryError")
            ELSE Done(copytree(f, src, dst))
       ELSE IF IsDir(f, dst)
       THEN LET target == Append(dst, NameOf(src))
            IN IF Exists(f, target) THEN Abort(f, "FileExistsError")
               ELSE Done(copytree(f, src, target))
       ELSE Abort(f, "SimulationError")

\* Move.execute: shutil.move
move_execute(f, op) ==
    LET src == RealPath(op.path)
        dst == RealPath(op.dst)
    IN IF ~Exists(f, src) THEN Abort(f, "SimulationError")
       ELSE IF IsDir(f, src) /\ IsFile(f, dst) THEN Abort(f, "SimulationError")
       ELSE IF IsDir(f, dst) /\ src = dst THEN Done(f)
       ELSE LET real_dst == IF IsDir(f, dst) THEN Append(dst, NameOf(src)) ELSE dst
            IN IF IsDir(f, dst) /\ Exists(f, real_dst) THEN Abort(f, "shutil.Error")
               ELSE IF real_dst = src THEN Done(f)
               ELSE IF IsDir(f, src) /\ is_subdirectory_of(real_dst, src)
               THEN Abort(f, "shutil.Error")
               ELSE IF IsFile(f, src) /\ ~IsDir(f, Parent(real_dst))
               THEN Abort(f, "FileNotFoundError")
               ELSE IF ~CanMakeDirs(f, real_dst) THEN Abort(f, "NotADirectoryError")
               ELSE Done(movetree(f, src, real_dst))

\* the trees the operations are tried on
ExecTrees ==
    {[EmptyFs EXCEPT ![<<"a">>] = Directory],
     [EmptyFs EXCEPT ![<<"a">>] = Directory, ![<<"a", "a">>] = RegularFile(256)],
     [EmptyFs EXCEPT ![<<"a">>] = Directory, ![<<"a", "a">>] = RegularFile(256),
                     ![<<"b">>] = Directory],
     [EmptyFs EXCEPT ![<<"a">>] = Directory, ![<<"a", "b">>] = Directory,
                     ![<<"b">>] = RegularFile(512)],
     [EmptyFs EXCEPT ![<<"a">>] = Directory, ![<<"b">>] = Directory,
                     ![<<"b", "a">>] = Directory]}

\* the paths the operations name
ExecPaths == {Root} \cup PathsOfDepth(1) \cup PathsOfDepth(2)

\* the place the source would land at
Landing(f, src, dst) == IF IsDir(f, dst) THEN Append(dst, NameOf(src)) ELSE dst

\* the tree that would appear has room within the depth of the model
Fits(f, src, dst) ==
    \A q \in Below(f, src) : Len(Rebase(q, src, Landing(f, src, dst))) <= MaxDepth

ExecInit ==
    /\ xpc = "start"
    /\ xop = Error("none")
    /\ xfs \in ExecTrees
    /\ fs = xfs
    /\ used = 0
    /\ KADIdle
    /\ CodecIdle
    /\ ShrinkIdle
    /\ WriteIdle
    /\ PlaybookIdle
    /\ CaseyIdle
    /\ ProbIdle
    /\ IterIdle
    /\ QueryIdle
    /\ ParseIdle
    /\ MountIdle
    /\ FragIdle

\* Copy(src, dst) or Move(src, dst)
ExecConstruct ==
    /\ xpc = "start"
    /\ \E command \in {"cp", "mv"}, src \in ExecPaths \ {Root}, dst \in ExecPaths :
          /\ Fits(fs, src, dst)
          /\ xop' = Copy(command, AsSimPath(src), AsSimPath(dst))
    /\ xpc' = "constructed"
    /\ UNCHANGED <<xfs, fs, used>>

\* execute(): xpc names the exception when one is raised
ExecExecute ==
    /\ xpc = "constructed"
    /\ LET r == IF xop.op.command = "cp" THEN copy_execute(fs, xop.op)
                ELSE move_execute(fs, xop.op)
       IN /\ fs' = r.fs
          /\ xpc' = IF r.ok THEN "done" ELSE r.err
    /\ UNCHANGED <<xop, xfs, used>>

ExecNext ==
    /\ \/ ExecConstruct
       \/ ExecExecute
    /\ UNCHANGED <<kadVars, codecVars, shrinkVars, writeVars, playbookVars, caseyVars,
                   probVars, iterVars, queryVars, parseVars,
                   mountVars, fragVars>>

SpecExec == ExecInit /\ [][ExecNext]_vars

\* execute() has returned or raised
ExecOver == xpc \notin {"start", "constructed"}

\* the tree that was at src is found at target
TreeAt(src, target) ==
    \A q \in Below(xfs, src) : fs[Rebase(q, src, target)] = xfs[q]

\* C18: for a Copy or Move whose src is missing, execute() raises
\* SimulationError.  For a src that is a directory: when dst does not exist
\* the tree appears at dst; when dst is a directory the tree appears at
\* dst/src.name; when dst is a regular file SimulationError is raised.  After
\* a Copy that succeeded the source tree is as it was; after a Move that
\* succeeded the source is gone.
C18_CopyMoveDirectory ==
    ExecOver =>
        LET src == RealPath(xop.op.path)
            dst == RealPath(xop.op.dst)
        IN /\ (~Exists(xfs, src) => xpc = "SimulationError")
           /\ (IsDir(xfs, src) /\ ~Exists(xfs, dst) => xpc = "done" /\ TreeAt(src, dst))
           /\ (IsDir(xfs, src) /\ IsDir(xfs, dst) =>
                    xpc = "done" /\ TreeAt(src, Append(dst, NameOf(src))))
           /\ (IsDir(xfs, src) /\ IsFile(xfs, dst) => xpc = "SimulationError")
           /\ (IsDir(xfs, src) /\ xpc = "done" /\ xop.op.command = "cp" =>
                    \A q \in AllPaths : is_subdirectory_of(q, src) => fs[q] = xfs[q])
           /\ (IsDir(xfs, src) /\ xpc = "done" /\ xop.op.command = "mv" =>
                    ~Exists(fs, src))

-----------------------------------------------------------------------------
(* KADModel: the guards of the regular mode, and the sizes generated *)

\* C19: a step of KADModel in regular mode that sees less than 512 free
\* bytes dispatches to Remove or Shrink, and one that sees at least 512 free
\* bytes and no active entry dispatches to Write.
C19_RegularModeGuards ==
    (kpc \in {"emitted", "failed"} /\ mode = REGULAR) =>
        /\ (get_free_space(used) < 512) => kcmd \in {"rm", "shrink"}
        /\ (get_free_space(used) >= 512 /\ empty(fs)) => kcmd = "write"

\* a positive multiple of chunk_size that is at most limit
ChunkMultipleUpTo(size, chunk_size, limit) ==
    /\ size >= chunk_size
    /\ size % chunk_size = 0
    /\ size <= limit

\* C20: the size of every Write or Extend KADModel emits is a positive
\* multiple of chunk_size, at least chunk_size and at most the free space;
\* the size of every Shrink it emits is a positive multiple of chunk_size,
\* at least chunk_size and at most the size of the file less 1.
C20_GeneratedSizes ==
    (kpc = "emitted") =>
        /\ (kop.op.command \in {"write", "extend"}) =>
              ChunkMultipleUpTo(kop.op.size, kcfg.chunk_size, get_free_space(used))
        /\ (kop.op.command = "shrink") =>
              ChunkMultipleUpTo(kop.op.size, kcfg.chunk_size,
                                get_size_of(fs, RealPath(kop.op.path)) - 1)

\* C23: every operation KADModel emits fits the file system the step saw:
\* a Remove names an active entry, a Write a path that does not exist, an
\* Extend an existing regular file, and a Shrink an existing regular file
\* with chunk_size <= shrink_size < the size of the file.
C23_EmittedOperationsValid ==
    (kpc = "emitted") =>
        LET target == RealPath(kop.op.path)
        IN /\ (kop.op.command = "rm") => Exists(fs, target)
           /\ (kop.op.command = "write") => ~Exists(fs, target)
           /\ (kop.op.command = "extend") => IsFile(fs, target)
           /\ (kop.op.command = "shrink") =>
                 /\ IsFile(fs, target)
                 /\ kcfg.chunk_size <= kop.op.size
                 /\ kop.op.size < get_size_of(fs, target)

-----------------------------------------------------------------------------
(* From the path of an operation to the path execute() acts on *)

\* the most components a path handed to an operation has
MaxParts == 3

\* what a component of such a path may be
Components == Names \cup {".."}

RECURSIVE PartsOfLength(_)
PartsOfLength(n) ==
    IF n = 0 THEN {<<>>}
    ELSE {Append(p, c) : p \in PartsOfLength(n - 1), c \in Components}

\* the paths handed in: absolute and relative ones
MountPaths ==
    {SimPath(abs, parts, <<>>) :
        abs \in BOOLEAN, parts \in UNION {PartsOfLength(n) : n \in 0..MaxParts}}

\* _SIMULATION_MOUNT_POINT, as the components of a path of the host
SIMULATION_MOUNT_POINT == <<"mnt", "sim">>

\* get_path_in_mount_point: the mount point joined with the path made
\* relative to "/" (a relative path is joined as it is)
get_path_in_mount_point(p) == SIMULATION_MOUNT_POINT \o p.parts

\* the directory entry the host reaches by a path: ".." steps to the parent,
\* and the parent of the root is the root
RECURSIVE Reached(_, _)
Reached(at, rest) ==
    IF rest = <<>> THEN at
    ELSE IF Head(rest) = ".."
    THEN Reached(IF at = <<>> THEN <<>> ELSE SubSeq(at, 1, Len(at) - 1), Tail(rest))
    ELSE Reached(Append(at, Head(rest)), Tail(rest))

MountInit ==
    /\ mpc = "start"
    /\ mpath \in MountPaths
    /\ mnormalized = <<>>
    /\ mreal = <<>>
    /\ FsIdle
    /\ KADIdle
    /\ CodecIdle
    /\ ShrinkIdle
    /\ WriteIdle
    /\ PlaybookIdle
    /\ CaseyIdle
    /\ ProbIdle
    /\ IterIdle
    /\ QueryIdle
    /\ ParseIdle
    /\ ExecIdle
    /\ FragIdle

\* an operation is constructed: self._path = self._normalize_simulation_path(path)
MountConstruct ==
    /\ mpc = "start"
    /\ mnormalized' = normalize_simulation_path(mpath)
    /\ mpc' = "constructed"
    /\ UNCHANGED <<mpath, mreal>>

\* "rm path" or "mkdir path" read from a playbook line
MountFromPlaybookLine ==
    /\ mpc = "start"
    /\ \E command \in {"rm", "mkdir"} :
          LET r == from_playbook_line(command, <<Cmd(command)>> \o PathWords(mpath))
          IN /\ r.ok
             /\ mnormalized' = r.op.path
    /\ mpc' = "constructed"
    /\ UNCHANGED <<mpath, mreal>>

\* execute() asks for the real path
MountExecute ==
    /\ mpc = "constructed"
    /\ mreal' = get_path_in_mount_point(mnormalized)
    /\ mpc' = "executing"
    /\ UNCHANGED <<mpath, mnormalized>>

MountNext ==
    /\ \/ MountConstruct
       \/ MountFromPlaybookLine
       \/ MountExecute
    /\ UNCHANGED <<fsVars, kadVars, codecVars, shrinkVars, writeVars, playbookVars,
                   caseyVars, probVars, iterVars, queryVars, parseVars, execVars, fragVars>>

SpecMount == MountInit /\ [][MountNext]_vars

\* C28: the path execute() acts on lies inside the simulation mount point
\* for every path an operation is built with, relative paths and paths with
\* ".." components included, and normalizing a normalized path changes
\* nothing.
C28_InsideMountPoint ==
    /\ (mpc = "executing") =>
          is_subdirectory_of(Reached(<<>>, mreal), SIMULATION_MOUNT_POINT)
    /\ (mpc \in {"constructed", "executing"}) =>
          normalize_simulation_path(mnormalized) = mnormalized

-----------------------------------------------------------------------------
(* merge_overlapping_fragments *)

\* the largest block number and the longest list tried
MaxBlock == 4
MaxFragments == 3

\* closed intervals of blocks, as (first, last)
Fragments == {f \in (1..MaxBlock) \X (1..MaxBlock) : f[1] <= f[2]}

FragmentLists == UNION {[1..n -> Fragments] : n \in 0..MaxFragments}

\* the order of tuples
TupleLess(a, b) == a[1] < b[1] \/ (a[1] = b[1] /\ a[2] < b[2])

\* sorted(list)
RECURSIVE sorted(_)
sorted(list) ==
    IF list = <<>> THEN <<>>
    ELSE LET i == CHOOSE k \in 1..Len(list) : \A j \in 1..Len(list) : ~TupleLess(list[j], list[k])
         IN <<list[i]>> \o sorted(SubSeq(list, 1, i - 1) \o SubSeq(list, i + 1, Len(list)))

\* the for loop: a fragment that starts right after the end of the interval
\* appended last is appended from one block earlier
RECURSIVE shift_consecutive(_, _)
shift_consecutive(rest, intervals) ==
    IF rest = <<>> THEN intervals
    ELSE LET frag == Head(rest)
         IN IF Len(intervals) > 0 /\ frag[1] = intervals[Len(intervals)][2] + 1
            THEN shift_consecutive(Tail(rest), Append(intervals, <<frag[1] - 1, frag[2]>>))
            ELSE shift_consecutive(Tail(rest), Append(intervals, frag))

\* portion.Interval(*(portion.closed(*i) ...)): the union of closed intervals,
\* as its sorted list of disjoint intervals; two intervals are one when they
\* share a point
RECURSIVE closed_union(_, _)
closed_union(rest, atomic) ==
    IF rest = <<>> THEN atomic
    ELSE LET i == Head(rest)
             n == Len(atomic)
         IN IF n > 0 /\ i[1] <= atomic[n][2]
            THEN closed_union(Tail(rest),
                    [atomic EXCEPT ![n] = <<atomic[n][1],
                                            IF i[2] > atomic[n][2] THEN i[2] ELSE atomic[n][2]>>])
            ELSE closed_union(Tail(rest), Append(atomic, i))

\* merge_overlapping_fragments
merge_overlapping_fragments(fragments) ==
    IF Len(fragments) = 0 THEN fragments
    ELSE closed_union(sorted(shift_consecutive(sorted(fragments), <<>>)), <<>>)

FragInit ==
    /\ gpc = "start"
    /\ gfragments \in FragmentLists
    /\ gmerged = <<>>
    /\ FsIdle
    /\ KADIdle
    /\ CodecIdle
    /\ ShrinkIdle
    /\ WriteIdle
    /\ PlaybookIdle
    /\ CaseyIdle
    /\ ProbIdle
    /\ IterIdle
    /\ QueryIdle
    /\ ParseIdle
    /\ ExecIdle
    /\ MountIdle

FragMerge ==
    /\ gpc = "start"
    /\ gmerged' = merge_overlapping_fragments(gfragments)
    /\ gpc' = "merged"
    /\ UNCHANGED gfragments

FragNext ==
    /\ FragMerge
    /\ UNCHANGED <<fsVars, kadVars, codecVars, shrinkVars, writeVars, playbookVars,
                   caseyVars, probVars, iterVars, queryVars, parseVars, execVars, mountVars>>

SpecFrag == FragInit /\ [][FragNext]_vars

\* the blocks a list of intervals covers
Covered(list) == UNION {list[i][1]..list[i][2] : i \in 1..Len(list)}

\* C29: merge_overlapping_fragments returns the sorted list of pairwise
\* disjoint, non-adjacent intervals that covers exactly the blocks of its
\* input.
C29_MergedFragments ==
    (gpc = "merged") =>
        /\ Covered(gmerged) = Covered(gfragments)
        /\ \A i \in 1..Len(gmerged) : gmerged[i][1] <= gmerged[i][2]
        /\ \A i \in 1..Len(gmerged), j \in 1..Len(gmerged) :
              i < j => gmerged[i][2] + 1 < gmerged[j][1]

-----------------------------------------------------------------------------
(* PlaybookModel: what a model instance yields after its traversal ended *)

\* the number of next() calls tried on an exhausted iterator
MaxLateCalls == 2

\* next() on the exhausted iterator of the first traversal: StopIteration
PlaybookLateNext ==
    /\ ppc \in {"ended", "ended again"}
    /\ late_calls < MaxLateCalls
    /\ late_calls' = late_calls + 1
    /\ UNCHANGED <<ppc, playbook, operations, returned, piter, late>>

\* PlaybookModel.__iter__ once more: a new iterator over the list of operations
PlaybookIterAgain ==
    /\ ppc = "ended"
    /\ ppc' = "iterating again"
    /\ piter' = 0
    /\ UNCHANGED <<playbook, operations, returned, late, late_calls>>

\* next() on the new iterator while the list has elements left
PlaybookNextAgain ==
    /\ ppc = "iterating again"
    /\ piter < Len(operations)
    /\ piter' = piter + 1
    /\ late' = Append(late, operations[piter + 1])
    /\ UNCHANGED <<ppc, playbook, operations, returned, late_calls>>

\* next() on the new iterator at the end of the list
PlaybookStopAgain ==
    /\ ppc = "iterating again"
    /\ piter = Len(operations)
    /\ ppc' = "ended again"
    /\ UNCHANGED <<playbook, operations, returned, piter, late, late_calls>>

TraversalNext ==
    /\ \/ PlaybookSteps /\ UNCHANGED iterVars
       \/ PlaybookLateNext
       \/ PlaybookIterAgain
       \/ PlaybookNextAgain
       \/ PlaybookStopAgain
    /\ UNCHANGED <<fsVars, kadVars, codecVars, shrinkVars, writeVars, caseyVars,
                   probVars, queryVars, parseVars, execVars,
                   mountVars, fragVars>>

SpecTraversal == PlaybookInit /\ [][TraversalNext]_vars

\* C11: once a traversal of a model instance has ended, neither a further
\* next() call nor a new iteration over the same instance yields an operation.
C11_SinglePass == late = <<>>

-----------------------------------------------------------------------------
(* ProbabilisticModel: generating one operation *)

Min(a, b) == IF a <= b THEN a ELSE b
Max(a, b) == IF a >= b THEN a ELSE b

\* random.randint(lo, hi) for lo <= hi: its two ends and the sizes on the
\* usage grid between them; lo > hi is a ValueError
RandSizes(lo, hi) == {lo, hi} \cup {n \in UsageValues : lo <= n /\ n <= hi}

\* the sum of the sizes of the regular files among a set of paths
RECURSIVE SizeOfAll(_, _)
SizeOfAll(f, files) ==
    IF files = {} THEN 0
    ELSE LET p == CHOOSE q \in files : TRUE
         IN get_size_of(f, p) + SizeOfAll(f, files \ {p})

\* get_files_below: the regular files at or below a path
get_files_below(f, path) == {q \in Below(f, path) : IsFile(f, q)}

\* variant: a full volume does not narrow the candidates
prob_op_names_ignoring_free_space(f, u) ==
    IF empty(f) THEN {"write", "mkdir"}
    ELSE {"write", "mkdir", "cp", "mv", "rm"}
         \cup (IF get_files_by_type(f, "regular") # {} THEN {"extend"} ELSE {})

\* the op_names of ProbabilisticModel.__next__
prob_op_names(f, u) ==
    IF empty(f) THEN {"write", "mkdir"}
    ELSE IF get_free_space(u) <= 0 THEN {"cp", "mv", "rm", "write"}
    ELSE {"write", "mkdir", "cp", "mv", "rm"}
         \cup (IF get_files_by_type(f, "regular") # {} THEN {"extend"} ELSE {})

\* the line "<command> <path>" handed to from_playbook_line
PathLine(command, q) == <<Cmd(command)>> \o PathWords(AsSimPath(q))

\* ProbabilisticModel._random_remove
random_remove(f) ==
    {IF file.res = "error" THEN Error(file.err)
     ELSE IF file.res = "none" THEN Error("AttributeError")
     ELSE from_playbook_line("rm", PathLine("rm", file.path))
     : file \in get_random_file(f, "any", {}, NoFilter)}

\* ProbabilisticModel._random_mkdir
random_mkdir(f) ==
    {IF path.res = "error" THEN Error(path.err)
     ELSE from_playbook_line("mkdir", PathLine("mkdir", path.path))
     : path \in get_nonexistent_path(f, DefaultNameLength, <<>>)}

\* the path of _random_write: an existing regular file or a new path
write_paths(f, u, min_write_size) ==
    IF get_free_space(u) < min_write_size
    THEN get_random_file(f, "regular", {}, NoFilter)
    ELSE IF get_files_by_type(f, "regular") = {}
    THEN get_nonexistent_path(f, DefaultNameLength, <<>>)
    ELSE get_random_file(f, "regular", {}, NoFilter)
         \cup get_nonexistent_path(f, DefaultNameLength, <<>>)

\* ProbabilisticModel._random_write; range is <<min, max>> of the file sizes
random_write(range, f, u) ==
    LET min_write_size == range[1]
        max_write_size == Max(1, Min(get_free_space(u), range[2]))
        lo == Min(min_write_size, max_write_size)
        hi == Max(min_write_size, max_write_size)
    IN UNION {IF path.res = "error" THEN {Error(path.err)}
              ELSE IF path.res = "none" THEN {Error("AttributeError")}
              ELSE {from_playbook_line("write",
                        PathLine("write", path.path) \o <<KV("size", Num(filesize, ""))>>)
                    : filesize \in RandSizes(lo, hi)}
              : path \in write_paths(f, u, min_write_size)}

\* ProbabilisticModel._random_extend
random_extend(range, f, u) ==
    UNION {IF file.res = "error" THEN {Error(file.err)}
           ELSE IF file.res = "none" THEN {Error("AttributeError")}
           ELSE LET max_extend_size == Min(range[2] - get_size_of(f, file.path),
                                           get_free_space(u))
                IN IF max_extend_size < 1 THEN {Error("ValueError")}
                   ELSE {from_playbook_line("extend",
                            PathLine("extend", file.path)
                            \o <<KV("extend_size", Num(extend_size, ""))>>)
                         : extend_size \in RandSizes(1, max_extend_size)}
           : file \in get_random_file(f, "regular", {}, NoFilter)}

\* variant: the source is not taken out of the existing destinations
copy_destinations_keeping_source(f, src) ==
    LET file_type == IF IsFile(f, src) THEN "regular" ELSE "directory"
        skip == IF IsFile(f, src) THEN <<>> ELSE <<src>>
        fresh == get_nonexistent_path(f, DefaultNameLength, skip)
        existing == get_random_file(f, file_type, {}, NoFilter)
    IN fresh \cup UNION {IF dst.res = "none" THEN fresh ELSE {dst} : dst \in existing}

\* the destinations _random_copy_or_move may pick for a source
copy_destinations(f, src) ==
    LET file_type == IF IsFile(f, src) THEN "regular" ELSE "directory"
        skip == IF IsFile(f, src) THEN <<>> ELSE <<src>>
        fresh == get_nonexistent_path(f, DefaultNameLength, skip)
        existing == get_random_file(f, file_type, {src}, NoFilter)
    IN fresh \cup UNION {IF dst.res = "none" THEN fresh ELSE {dst} : dst \in existing}

\* a Copy whose source needs more than the free space becomes a Remove
copy_needs_space(f, u, src) ==
    IF IsFile(f, src) THEN get_free_space(u) < get_size_of(f, src)
    ELSE get_free_space(u) < SizeOfAll(f, get_files_below(f, src))

\* ProbabilisticModel._random_copy_or_move
random_copy_or_move(op_name, f, u) ==
    UNION {IF src.res = "error" THEN {Error(src.err)}
           ELSE IF src.res = "none" THEN {Error("AttributeError")}
           ELSE IF op_name = "cp" /\ copy_needs_space(f, u, src.path) THEN random_remove(f)
           ELSE {IF dst.res = "error" THEN Error(dst.err)
                 ELSE from_playbook_line(op_name,
                        PathLine(op_name, src.path) \o PathWords(AsSimPath(dst.path)))
                 : dst \in copy_destinations(f, src.path)}
           : src \in get_random_file(f, "any", {}, NoFilter)}

\* the match of ProbabilisticModel.__next__
prob_generate(op_name, range, f, u) ==
    CASE op_name \in {"cp", "mv"} -> random_copy_or_move(op_name, f, u)
      [] op_name = "extend" -> random_extend(range, f, u)
      [] op_name = "mkdir" -> random_mkdir(f)
      [] op_name = "rm" -> random_remove(f)
      [] op_name = "write" -> random_write(range, f, u)

\* variant: mkdir(parents=True, exist_ok=True)
mkdir_execute_exist_ok(f, op) ==
    LET real_path == RealPath(op.path)
    IN IF IsFile(f, real_path) \/ ~CanMakeDirs(f, real_path) THEN Abort(f, "SimulationError")
       ELSE Done([q \in AllPaths |->
                    IF ~Exists(f, q) /\ is_subdirectory_of(real_path, q) THEN Directory
                    ELSE f[q]])

\* Mkdir.execute: mkdir(parents=True, exist_ok=False), any failure a SimulationError
mkdir_execute(f, op) ==
    LET real_path == RealPath(op.path)
    IN IF Exists(f, real_path) \/ ~CanMakeDirs(f, real_path) THEN Abort(f, "SimulationError")
       ELSE Done([q \in AllPaths |->
                    IF ~Exists(f, q) /\ is_subdirectory_of(real_path, q) THEN Directory
                    ELSE f[q]])

\* execute() of the six kinds ProbabilisticModel emits
prob_execute(f, op) ==
    CASE op.command = "write" -> write_execute(f, op)
      [] op.command = "rm" -> remove_execute(f, op)
      [] op.command = "extend" -> extend_execute(f, op)
      [] op.command = "mkdir" -> mkdir_execute(f, op)
      [] op.command = "cp" -> copy_execute(f, op)
      [] op.command = "mv" -> move_execute(f, op)

-----------------------------------------------------------------------------
(* execute() of every kind of operation on a tree *)

\* execute() of the seven kinds that change the tree
ops_execute(f, op) ==
    IF op.command = "shrink" THEN shrink_execute(f, op) ELSE prob_execute(f, op)

\* the sizes the Write, Extend and Shrink tried carry
OpsSizes == {256, 2 * Total}

\* Remove(path), Mkdir(path), Write(path, size), Extend(path, extend_size) or
\* Shrink(path, shrink_size), built from its playbook line
OpsConstruct ==
    /\ xpc = "start"
    /\ \E p \in ExecPaths \ {Root} :
          \/ \E command \in {"rm", "mkdir"} :
                xop' = from_playbook_line(command, PathLine(command, p))
          \/ \E command \in {"write", "extend", "shrink"}, size \in OpsSizes :
                xop' = from_playbook_line(command,
                          PathLine(command, p) \o <<KV(SizeKey(command), Num(size, ""))>>)
    /\ xpc' = "constructed"
    /\ UNCHANGED <<xfs, fs, used>>

\* execute(): xpc names the exception when one is raised
OpsExecute ==
    /\ xpc = "constructed"
    /\ LET r == ops_execute(fs, xop.op)
       IN /\ fs' = r.fs
          /\ xpc' = IF r.ok THEN "done" ELSE r.err
    /\ UNCHANGED <<xop, xfs, used>>

OpsNext ==
    /\ \/ ExecConstruct
       \/ OpsConstruct
       \/ OpsExecute
    /\ UNCHANGED <<kadVars, codecVars, shrinkVars, writeVars, playbookVars, caseyVars,
                   probVars, iterVars, queryVars, parseVars, mountVars, fragVars>>

SpecOps == ExecInit /\ [][OpsNext]_vars

\* the preconditions of execute() that the tree f does not meet for op
FailsPrecondition(f, op) ==
    LET path == RealPath(op.path)
        dst == RealPath(op.dst)
    IN CASE op.command \in {"cp", "mv"} ->
              ~Exists(f, path) \/ (IsDir(f, path) /\ IsFile(f, dst))
         [] op.command = "rm" -> ~Exists(f, path)
         [] op.command = "mkdir" -> Exists(f, path)
         [] op.command = "extend" -> ~Exists(f, path) \/ IsDir(f, path)
         [] op.command = "write" -> IsDir(f, path)
         [] op.command = "shrink" ->
              IsDir(f, path) \/ (IsFile(f, path) /\ op.size > get_size_of(f, path))

\* C30: an operation whose execute() does not find its precondition met (a
\* Copy or Move of a missing source or of a directory onto an existing file,
\* a Remove of a missing path, a Mkdir of an existing path, an Extend of a
\* missing path, a Write, Extend or Shrink of a directory, a Shrink by more
\* than the size of the file) raises SimulationError and leaves the tree and
\* every file size as they were.
C30_FailedPreconditionKeepsTree ==
    (ExecOver /\ FailsPrecondition(xfs, xop.op)) =>
        /\ xpc = "SimulationError"
        /\ fs = xfs

\* a Mkdir of an existing path was refused
C30_Witness ==
    /\ xpc = "SimulationError"
    /\ xop.op.command = "mkdir"
    /\ Exists(xfs, RealPath(xop.op.path))
    /\ fs = xfs

-----------------------------------------------------------------------------
(* ProbabilisticModel: the run *)

ProbConfig(steps, file_size_min, file_size_max) ==
    [steps |-> steps, file_size_min |-> file_size_min, file_size_max |-> file_size_max]

\* the configurations tried: no steps, sizes in both orders, and a size
\* that is no size definition
ProbConfigs ==
    {ProbConfig(steps, a, b) :
        steps \in {0, MaxSteps},
        a \in {Num(256, ""), Num(1, "KiB"), Text("big")},
        b \in {Num(512, "")}}

\* the file systems a run may start on
ProbInitialFs ==
    {EmptyFs,
     [EmptyFs EXCEPT ![<<"a">>] = Directory, ![<<"a", "a">>] = Directory],
     [EmptyFs EXCEPT ![<<"a">>] = Directory, ![<<"b">>] = RegularFile(256)]}

\* ProbabilisticModel._get_new_file_size_range
get_new_file_size_range(c) ==
    <<parse_size_definition(c.file_size_min), parse_size_definition(c.file_size_max)>>

\* the range as the pair of numbers __init__ keeps
file_size_range(c) == <<get_new_file_size_range(c)[1].v, get_new_file_size_range(c)[2].v>>

\* ProbabilisticModel._validate_config: TRUE when no ConfigurationError is raised
prob_validate_config(c) == ~(c.steps < 1)

ProbInit ==
    /\ rpc = "new"
    /\ rcfg \in ProbConfigs
    /\ r_current_step = 0
    /\ rop = Error("none")
    /\ rcmd = "none"
    /\ FsIdle
    /\ KADIdle
    /\ CodecIdle
    /\ ShrinkIdle
    /\ WriteIdle
    /\ PlaybookIdle
    /\ CaseyIdle
    /\ IterIdle
    /\ QueryIdle
    /\ ParseIdle
    /\ ExecIdle
    /\ MountIdle
    /\ FragIdle

\* ProbabilisticModel.__init__: the configuration is validated, then the
\* size range is parsed; rpc names the exception when one is raised
ProbConstruct ==
    /\ rpc = "new"
    /\ rpc' = IF ~prob_validate_config(rcfg) THEN "ConfigurationError"
              ELSE IF \E i \in 1..2 : ~get_new_file_size_range(rcfg)[i].ok THEN "ValueError"
              ELSE "constructed"
    /\ r_current_step' = 0
    /\ UNCHANGED <<rcfg, rop, rcmd, fs, used>>

\* UsageModel.set_simulation_parameters: the model is given its file system
ProbSetSimulationParameters ==
    /\ rpc = "constructed"
    /\ fs' \in ProbInitialFs
    /\ used' \in UsageValues
    /\ rpc' = "ready"
    /\ UNCHANGED <<rcfg, r_current_step, rop, rcmd>>

\* ProbabilisticModel.__next__ while steps remain
ProbNextOperation ==
    /\ rpc = "ready"
    /\ r_current_step < rcfg.steps
    /\ r_current_step' = r_current_step + 1
    /\ \E op_name \in prob_op_names(fs, used) :
          \E r \in prob_generate(op_name, file_size_range(rcfg), fs, used) :
              /\ rcmd' = op_name
              /\ rop' = r
              /\ rpc' = IF r.ok THEN "emitted" ELSE "failed"
    /\ UNCHANGED <<rcfg, fs, used>>

\* ProbabilisticModel.__next__ after the last step: StopIteration
ProbStopIteration ==
    /\ rpc = "ready"
    /\ r_current_step >= rcfg.steps
    /\ rpc' = "stopped"
    /\ UNCHANGED <<rcfg, r_current_step, rop, rcmd, fs, used>>

\* the tree a Copy or Move leaves has room within the depth of the model
ProbFits(f, op) ==
    (op.command \in {"cp", "mv"} /\ Exists(f, RealPath(op.path))) =>
        Fits(f, RealPath(op.path), RealPath(op.dst))

\* The execution environment runs the operation; the usage the next step
\* sees is whatever the volume then reports
ProbExecute ==
    /\ rpc = "emitted"
    /\ ProbFits(fs, rop.op)
    /\ LET r == prob_execute(fs, rop.op)
       IN /\ fs' = r.fs
          /\ rpc' = IF r.ok THEN "ready" ELSE "aborted"
    /\ used' \in UsageValues
    /\ UNCHANGED <<rcfg, r_current_step, rop, rcmd>>

ProbNext ==
    /\ \/ ProbConstruct
       \/ ProbSetSimulationParameters
       \/ ProbNextOperation
       \/ ProbStopIteration
       \/ ProbExecute
    /\ UNCHANGED <<kadVars, codecVars, shrinkVars, writeVars, playbookVars, caseyVars,
                   iterVars, queryVars, parseVars, execVars,
                   mountVars, fragVars>>

SpecProb == ProbInit /\ [][ProbNext]_vars

\* the kinds the state of the file system allows
AllowedKinds(f, u) ==
    IF get_files(f) = {} THEN {"mkdir", "write"}
    ELSE IF get_free_space(u) <= 0 THEN {"cp", "mv", "rm", "write"}
    ELSE {"mkdir", "write", "cp", "mv", "rm"}
         \cup {k \in {"extend"} : \E p \in AllPaths : IsFile(f, p)}

\* C12: the kind of the operation a step of ProbabilisticModel emits is among
\* the kinds the file system seen by that step allows: mkdir and write when
\* no entry is active; cp, mv, rm and write when entries are active and no
\* space is free; otherwise mkdir, write, cp, mv and rm, and extend exactly
\* when a regular file exists.
C12_CandidateNarrowing ==
    (rpc = "emitted") => rop.op.command \in AllowedKinds(fs, used)

\* on a full volume a drawn cp is answered with a Remove
C12_Witness ==
    /\ rpc = "emitted"
    /\ ~empty(fs)
    /\ get_free_space(used) <= 0
    /\ rcmd = "cp"
    /\ rop.op.command = "rm"

\* a configuration of ProbabilisticModel with a parameter out of range: no
\* step, or a smallest file size above the largest
ProbOutOfRange(c) ==
    \/ c.steps < 1
    \/ /\ \A i \in 1..2 : get_new_file_size_range(c)[i].ok
       /\ file_size_range(c)[1] > file_size_range(c)[2]

\* C16: the constructor of ProbabilisticModel answers every configuration
\* with a parameter out of range, file_size_min > file_size_max included,
\* with ConfigurationError.
C16_RejectedAtConstruction ==
    (rpc # "new" /\ ProbOutOfRange(rcfg)) => rpc = "ConfigurationError"

\* C21: a step of ProbabilisticModel that returns an operation returns one
\* of the kind it drew from its candidates, never one of another kind.
C21_NoSilentConversion ==
    (rpc = "emitted") => rop.op.command = rcmd

\* C24: every Copy and Move ProbabilisticModel emits has an active entry as
\* its source and a destination other than the source; when the source is a
\* directory the destination is not an existing regular file.
C24_CopyMoveEndpoints ==
    (rpc = "emitted" /\ rop.op.command \in {"cp", "mv"}) =>
        LET src == RealPath(rop.op.path)
            dst == RealPath(rop.op.dst)
        IN /\ Exists(fs, src)
           /\ dst # src
           /\ IsDir(fs, src) => ~IsFile(fs, dst)

\* a Move of a directory onto another existing directory
C24_Witness ==
    /\ rpc = "emitted"
    /\ rop.op.command = "mv"
    /\ IsDir(fs, RealPath(rop.op.path))
    /\ IsDir(fs, RealPath(rop.op.dst))

\* C25: every Write of ProbabilisticModel to a path that does not exist has
\* file_size_min <= size <= min(file_size_max, free space); when the free
\* space is below file_size_min the Write names an existing regular file.
C25_WriteRule ==
    (rpc = "emitted" /\ rcmd = "write") =>
        LET target == RealPath(rop.op.path)
            file_size_min == file_size_range(rcfg)[1]
            file_size_max == file_size_range(rcfg)[2]
        IN /\ (~Exists(fs, target)) =>
                 /\ file_size_min <= rop.op.size
                 /\ rop.op.size <= Min(file_size_max, get_free_space(used))
           /\ (get_free_space(used) < file_size_min) => IsFile(fs, target)

\* C26: a step of ProbabilisticModel that draws extend emits an Extend of an
\* existing regular file with 1 <= extend_size <= file_size_max less the
\* size of the file, and extend_size <= free space.
C26_ExtendRule ==
    (rpc \in {"emitted", "failed"} /\ rcmd = "extend") =>
        /\ rop.ok
        /\ rop.op.command = "extend"
        /\ IsFile(fs, RealPath(rop.op.path))
        /\ 1 <= rop.op.size
        /\ rop.op.size <= file_size_range(rcfg)[2] - get_size_of(fs, RealPath(rop.op.path))
        /\ rop.op.size <= get_free_space(used)

\* C13: when ProbabilisticModel emits a Copy or Move whose source is a
\* directory, the destination is neither the source nor a path below it.
C13_CycleSafety ==
    (rpc = "emitted" /\ rop.op.command \in {"cp", "mv"} /\ IsDir(fs, RealPath(rop.op.path))) =>
        ~is_subdirectory_of(RealPath(rop.op.dst), RealPath(rop.op.path))

-----------------------------------------------------------------------------
(* CaseyModel, and the usage models side by side *)

\* largest series_num and max_photo_num tried
MaxSeries == 2

CaseyConfigs ==
    {[series_num |-> n, max_photo_num |-> m, bit_depth |-> 8, channel_num |-> 3]
        : n \in 1..MaxSeries, m \in 1..MaxSeries}

CaseyInit ==
    /\ cypc = "new"
    /\ cycfg \in CaseyConfigs
    /\ FsIdle
    /\ KADIdle
    /\ CodecIdle
    /\ ShrinkIdle
    /\ WriteIdle
    /\ PlaybookIdle
    /\ ProbIdle
    /\ IterIdle
    /\ QueryIdle
    /\ ParseIdle
    /\ ExecIdle
    /\ MountIdle
    /\ FragIdle

\* The model is created.  CaseyModel.__init__ takes the configuration alone:
\* the program's call with (parameters, directory) does not fit it, and a call
\* with one argument reaches super().__init__(config), which lacks the
\* simulation_dir that UsageModel.__init__ requires.  Either way a TypeError
\* leaves the call and no model exists.
CaseyCreate ==
    /\ cypc = "new"
    /\ \E arguments \in {1, 2} : cypc' = "TypeError"
    /\ UNCHANGED cycfg

CaseyNext ==
    /\ CaseyCreate
    /\ UNCHANGED <<fsVars, kadVars, codecVars, shrinkVars, writeVars, playbookVars,
                 probVars, iterVars, queryVars, parseVars, execVars,
                   mountVars, fragVars>>

\* steps() of the three models
playbook_steps == Len(operations)
kad_steps == kcfg.steps
casey_steps == cycfg.series_num

ModelsInit == KADInit \/ PlaybookInit \/ CaseyInit

ModelsNext == KADNext \/ PlaybookNext \/ CaseyNext

SpecModels == ModelsInit /\ [][ModelsNext]_vars

\* C10: each usage model can be created from a valid configuration and
\* traversed, and when the traversal has ended the number of operations it
\* yielded is steps().  (For KADModel every __next__ call that did not raise
\* returned one operation, so at the end current_step counts the operations
\* yielded.)
C10_TraversalYieldsSteps ==
    /\ (kpc = "stopped" => current_step = kad_steps)
    /\ (ppc = "ended" => Len(returned) = playbook_steps)
    /\ cypc # "TypeError"

\* C22: a CaseyModel made from a valid configuration runs its series: the
\* creates of a batch of 1..max_photo_num files of one size, then, in every
\* series but the last, one Remove for each file of the batch.  The cycle
\* starts from a model that exists: making it leaves it created.
C22_BatchCycle ==
    (cypc \notin {"idle", "new"}) => cypc = "created"

=============================================================================
